---- MODULE Spec2Model ----
(***************************************************************************)
(* Timezone service: the Socket.io subscription server (SocketServer and   *)
(* the TimezoneWebSocket controller) and the HTTP Router with the          *)
(* TimezoneController / HealthcheckController routes.                      *)
(*                                                                         *)
(* Strings are sequences of tokens.  A token is a delimiter character      *)
(* ("/", "%", ":", a hex digit) or a word that holds no delimiter, so      *)
(* split('/'), startsWith(':'), slice(1), decodeURIComponent and           *)
(* String.includes are computed on the sequence as the code computes them  *)
(* on the characters.                                                      *)
(***************************************************************************)
EXTENDS Integers, Sequences, FiniteSets, TLC

VARIABLES
  \* ---- subscription server (SocketIOServer.ts, TimezoneWebSocket.ts) ----
  webSockets,          \* RoutingRegistry.webSockets: insertion-ordered Map, as a sequence
  services,            \* ServiceRegistry.services: service type -> instance
  constructed,         \* how many service objects `new serviceType()` has returned so far
  sockState,           \* per transport socket: "idle" | "connected" | "disconnected"
  rooms,               \* socket.join: set of <<socket, roomName>>
  webSocketInstances,  \* SocketServer.webSocketInstances: instanceKey -> controller id
  ctrl,                \* heap of TimezoneWebSocket objects: id -> [timezone, timezoneService, clients]
  client,              \* heap of SocketIOClient objects: id -> record
  closed,              \* io.close() was called
  lastEmit,            \* socket.emit calls made by the last step, in order
  lastOp,              \* the last step taken
  tickUpdates,         \* per socket: time-update events sent by timer callbacks in the current second
  tickErrors,          \* per socket: error events sent by timer callbacks in the current second
  subAtStart,          \* per socket: held a running subscription when the current second began
  \* ---- HTTP server (Router.ts, the request listener of the server) ----
  registry,            \* RoutingRegistry.controllers: insertion-ordered Map, as a sequence
  controllers,         \* Router.controllers: registered controller instances, by class name
  req,                 \* the request in hand: [method, url]
  res,                 \* its http.ServerResponse: [headers, statusCode, body, ended]
  handled,             \* how router.handleRequest ended: "none" | "true" | "false" | "threw"
  call,                \* the handler call handleRequest made: [handler, params, result]
  env,                 \* what the engine, a mock and the service constructor did for this request
  \* ---- ServiceRegistry calls (part_008) ----
  regCall,             \* the last ServiceRegistry call: what was asked, what it found and gave back
  given,               \* per service type: what getOrCreateService last returned since clear / registerService
  dropped,             \* the entries the last clear() removed
  \* ---- RoutingRegistry registrations (part_008) ----
  emitsMetadata,       \* the build emits design:paramtypes for Reflect.getMetadata
  regOp,               \* the last registration call, with the controllers map it found
  paramsOnly,          \* the controllers map the parameter registrations alone have built
  routeCalls,          \* the registerRoute calls made so far, in order
  calls,               \* how many registration calls were made
  \* ---- SocketServer.cleanup over controllers whose hook may fail ----
  cleaned,             \* the last cleanup: the instances cached, the hooks invoked, the hooks that threw
  pc                   \* "idle" | "routed" (handleRequest has settled) | "done"

\* `services` belongs to both servers: ServiceRegistry is one process-wide singleton.
svars == <<webSockets, sockState, rooms, webSocketInstances, ctrl,
           client, closed, lastEmit, lastOp, tickUpdates, tickErrors, subAtStart>>

rvars == <<registry, controllers, req, res, handled, call, env, pc>>

dvars == <<emitsMetadata, regOp, paramsOnly, routeCalls, calls, cleaned>>

avars == <<regCall, given, dropped, dvars>>

vars == <<services, constructed, svars, rvars, avars>>

-----------------------------------------------------------------------------
(* Bounds *)
MaxClients == 2

\* The transport connections.
Sockets == {1, 2}

-----------------------------------------------------------------------------
(* Timezone engine: TimezoneService *)

\* Identifiers Intl.DateTimeFormat takes as a timeZone.
ValidZones == { <<"UTC">>, <<"Etc", "/", "UTC">>,
                <<"America", "/", "Argentina", "/", "Buenos_Aires">> }

\* Outcomes of getTimeInTimezone for an identifier that passed validation.
FormatOutcomes == {"ok", "throws"}

isValidTimezone(timezone) == timezone \in ValidZones

\* A rejection message that names neither 'timezone' nor 'Invalid'.
UnknownZoneMessage(timezone) == <<"Unknown", " ", "zone", " ", "'">> \o timezone \o <<"'">>

NotValidMessage(timezone) ==
  <<"The", " ", "timezone", " ", "identifier", " ", "'">> \o timezone
    \o <<"'", " ", "is", " ", "not", " ", "valid">>

FailedMessage == <<"Failed", " ", "to", " ", "get", " ", "time", " ", "in", " ", "timezone">>

getValidatedTimeInTimezone(timezone, fmt) ==
  IF ~isValidTimezone(timezone)
    THEN [success |-> FALSE, error |-> NotValidMessage(timezone)]
    ELSE IF fmt = "ok"
      THEN [success |-> TRUE, time |-> "now"]
      ELSE [success |-> FALSE, error |-> FailedMessage]

-----------------------------------------------------------------------------
(* Subscription server *)

\* Topic values a client sends with subscribe-timezone / change-timezone.
Topics == { <<"Etc", "/", "UTC">>, <<"Nope">> }

\* '/time/live/:timezone'
LivePath == <<"/", "time", "/", "live", "/", ":", "timezone">>

\* ParameterMetadata.name and .serviceType when absent (both read as falsy).
NoName == << >>
NoService == ""

\* What the decorators of TimezoneWebSocket leave in the registry: the
\* constructor's @PARAM runs before the class's @WebSocket, finds no metadata
\* and registers nothing; registerWebSocketRoute then auto-detects
\* (String, TimezoneService).
TimezoneWebSocketMeta ==
  [controllerClass |-> "TimezoneWebSocket",
   path |-> LivePath,
   parameters |-> << [index |-> 0, type |-> "param", name |-> NoName,
                      serviceType |-> NoService],
                     [index |-> 1, type |-> "service", name |-> NoName,
                      serviceType |-> "TimezoneService"] >>]

\* Registries the server may run with: the application's, and an empty one.
WebSocketConfigs == { <<TimezoneWebSocketMeta>>, << >> }

RECURSIVE SplitAcc(_, _, _)
SplitAcc(s, cur, acc) ==
  IF s = << >> THEN Append(acc, cur)
  ELSE IF Head(s) = "/" THEN SplitAcc(Tail(s), << >>, Append(acc, cur))
  ELSE SplitAcc(Tail(s), Append(cur, Head(s)), acc)

\* str.split('/')
Split(s) == SplitAcc(s, << >>, << >>)

\* arr.filter((part) => part)
FilterNonEmpty(parts) == SelectSeq(parts, LAMBDA p : p # << >>)

Parts(s) == FilterNonEmpty(Split(s))

\* A match that takes every route for the topic's.
matchAnyRoute(timezone, routePath) ==
  [matched |-> TRUE, params |-> (<<"timezone">> :> timezone)]

\* SocketServer.matchTimezoneRoute
matchTimezoneRoute(timezone, routePath) ==
  LET routeParts == Parts(routePath)
  IN IF \E i \in 1..Len(routeParts) : routeParts[i] = <<":", "timezone">>
       THEN [matched |-> TRUE, params |-> (<<"timezone">> :> timezone)]
       ELSE [matched |-> FALSE, params |-> << >>]

\* A scan that keeps the last registered route that matches.
LastMatch(timezone) ==
  LET hits == { i \in 1..Len(webSockets) :
                  matchTimezoneRoute(timezone, webSockets[i].path).matched }
  IN IF hits = {} THEN 0 ELSE CHOOSE i \in hits : \A j \in hits : j <= i

\* The first registered route that matches, 0 when none does.
FirstMatch(timezone) ==
  LET hits == { i \in 1..Len(webSockets) :
                  matchTimezoneRoute(timezone, webSockets[i].path).matched }
  IN IF hits = {} THEN 0 ELSE CHOOSE i \in hits : \A j \in hits : i <= j

\* A cache key that names the controller class only.
instanceKeyByClass(controllerClass, urlParams) == <<controllerClass, "-">>

\* `${controllerClass.name}-${urlParams.timezone}`
instanceKey(controllerClass, urlParams) ==
  <<controllerClass, "-">> \o urlParams[<<"timezone">>]

\* A service object: an instance the registry constructed (new serviceType()),
\* or one a caller handed to registerService (the tests' mocks).
\* serial tells the objects of one type apart: the serial-th object constructed.
Service(serviceType, serial) == [type |-> serviceType, mock |-> FALSE, serial |-> serial]
MockService(serviceType) == [type |-> serviceType, mock |-> TRUE, serial |-> 0]
NoInstance == [type |-> NoService, mock |-> FALSE, serial |-> 0]

\* The number of objects constructed on the way from registry `before` to
\* registry `after`.
Constructions(before, after) ==
  Cardinality({ t \in DOMAIN after : t \notin DOMAIN before \/ after[t] # before[t] })

\* What `new serviceType()` does: it returns a new object, told apart from
\* the earlier ones by its serial, or the constructor throws.
Returns(serial) == [threw |-> FALSE, serial |-> serial]
Throws == [threw |-> TRUE, serial |-> 0]
CtorOutcomes == {Returns(constructed + 1), Throws}

\* new serviceType() when the constructor returns
NewService(serviceType, ctor) == Service(serviceType, ctor.serial)

\* A registry that constructs on every call, cached or not.
getOrCreateServiceAnew(svcs, serviceType, ctor) ==
  [services |-> [t \in DOMAIN svcs \cup {serviceType} |->
                   IF t = serviceType THEN Service(serviceType, ctor.serial) ELSE svcs[t]],
   instance |-> Service(serviceType, ctor.serial), threw |-> FALSE]

\* A registry that reserves the entry before it constructs, and leaves the
\* reservation behind when the constructor throws.
getOrCreateServiceReserving(svcs, serviceType, ctor) ==
  IF serviceType \in DOMAIN svcs
    THEN [services |-> svcs, instance |-> svcs[serviceType], threw |-> FALSE]
    ELSE [services |-> [t \in DOMAIN svcs \cup {serviceType} |->
                          IF t = serviceType THEN Service(serviceType, ctor.serial)
                                             ELSE svcs[t]],
          instance |-> IF ctor.threw THEN NoInstance ELSE Service(serviceType, ctor.serial),
          threw |-> ctor.threw]

\* ServiceRegistry.getOrCreateService: [services, instance, threw]
getOrCreateService(svcs, serviceType, ctor) ==
  IF serviceType \in DOMAIN svcs
    THEN [services |-> svcs, instance |-> svcs[serviceType], threw |-> FALSE]
    ELSE IF ctor.threw
      THEN [services |-> svcs, instance |-> NoInstance, threw |-> TRUE]
      ELSE [services |-> [t \in DOMAIN svcs \cup {serviceType} |->
                            IF t = serviceType THEN NewService(serviceType, ctor)
                            ELSE svcs[t]],
            instance |-> NewService(serviceType, ctor), threw |-> FALSE]

\* Another object made by hand to be registered: a second mock of the type.
SpyService(serviceType) == [type |-> serviceType, mock |-> TRUE, serial |-> 1]

\* A registration that gives way to an entry already cached.
registerIfAbsent(svcs, serviceType, serviceInstance) ==
  [t \in DOMAIN svcs \cup {serviceType} |->
     IF t \in DOMAIN svcs THEN svcs[t] ELSE serviceInstance]

\* ServiceRegistry.registerService: the services map after this.services.set
registerService(svcs, serviceType, serviceInstance) ==
  [t \in DOMAIN svcs \cup {serviceType} |->
     IF t = serviceType THEN serviceInstance ELSE svcs[t]]

\* A getService that answers an unknown type with a new instance.
getServiceOrNew(svcs, serviceType) ==
  IF serviceType \in DOMAIN svcs THEN svcs[serviceType] ELSE Service(serviceType, 1)

\* ServiceRegistry.getService: the instance, or NoInstance for undefined
getService(svcs, serviceType) ==
  IF serviceType \in DOMAIN svcs THEN svcs[serviceType] ELSE NoInstance

\* A clear that drops nothing.
keepAll(svcs) == svcs

\* ServiceRegistry.clear: the services map after this.services.clear()
clear(svcs) == << >>

\* Values of an argument list: undefined, a string, a service instance.
ArgUndefined == [kind |-> "undefined", str |-> << >>, svc |-> NoInstance]
ArgString(v) == [kind |-> "string", str |-> v, svc |-> NoInstance]
ArgService(i) == [kind |-> "service", str |-> << >>, svc |-> i]

\* [...parameters].sort((a, b) => a.index - b.index): stable
RECURSIVE InsertByIndex(_, _)
InsertByIndex(sorted, p) ==
  IF sorted = << >> THEN <<p>>
  ELSE IF sorted[Len(sorted)].index <= p.index THEN Append(sorted, p)
  ELSE Append(InsertByIndex(SubSeq(sorted, 1, Len(sorted) - 1), p), sorted[Len(sorted)])

RECURSIVE SortByIndex(_)
SortByIndex(ps) ==
  IF ps = << >> THEN << >>
  ELSE InsertByIndex(SortByIndex(SubSeq(ps, 1, Len(ps) - 1)), ps[Len(ps)])

\* params[index] = value on a JS array kept as a sequence (index 0 first);
\* a hole reads as undefined.
SetAt(arr, index, value) ==
  [i \in 1..(IF index + 1 > Len(arr) THEN index + 1 ELSE Len(arr)) |->
     IF i = index + 1 THEN value
     ELSE IF i <= Len(arr) THEN arr[i] ELSE ArgUndefined]

\* urlParams[name]
Lookup(urlParams, name) ==
  IF name \in DOMAIN urlParams THEN ArgString(urlParams[name]) ELSE ArgUndefined

\* The loop over sortedParams shared by Router.extractParameters and
\* SocketServer.resolveWebSocketParameters: [params, services, threw]; threw
\* when a service constructor threw, which ends the loop.
RECURSIVE FillParameters(_, _, _, _, _)
FillParameters(sortedParams, urlParams, params, svcs, ctor) ==
  IF sortedParams = << >> THEN [params |-> params, services |-> svcs, threw |-> FALSE]
  ELSE LET param == Head(sortedParams)
       IN IF param.type = "param"
            THEN FillParameters(Tail(sortedParams), urlParams,
                   SetAt(params, param.index,
                         IF param.name # NoName
                           THEN Lookup(urlParams, param.name) ELSE ArgUndefined),
                   svcs, ctor)
            ELSE IF param.serviceType # NoService
              THEN LET got == getOrCreateService(svcs, param.serviceType, ctor)
                   IN IF got.threw
                        THEN [params |-> params, services |-> svcs, threw |-> TRUE]
                        ELSE FillParameters(Tail(sortedParams), urlParams,
                               SetAt(params, param.index, ArgService(got.instance)),
                               got.services, ctor)
              ELSE FillParameters(Tail(sortedParams), urlParams,
                     SetAt(params, param.index, ArgUndefined), svcs, ctor)

resolveWebSocketParameters(metadata, urlParams, svcs, ctor) ==
  FillParameters(SortByIndex(metadata.parameters), urlParams, << >>, svcs, ctor)

\* Argument i (from 0) of a call made with the list args.
ArgAt(args, i) == IF i + 1 <= Len(args) THEN args[i + 1] ELSE ArgUndefined

\* A getWebSocketInstance that stores an instance under the key before it
\* resolves the constructor's parameters.
getWebSocketInstanceKeyFirst(metadata, urlParams, ctor) ==
  LET key == instanceKey(metadata.controllerClass, urlParams)
  IN IF key \in DOMAIN webSocketInstances
       THEN [instances |-> webSocketInstances, ctrl |-> ctrl,
             services |-> services, id |-> webSocketInstances[key], threw |-> FALSE]
       ELSE LET id == Len(ctrl) + 1
                r == resolveWebSocketParameters(metadata, urlParams, services, ctor)
                obj == [timezone |-> ArgAt(r.params, 0),
                        timezoneService |-> ArgAt(r.params, 1),
                        clients |-> {}]
            IN [instances |-> [k \in DOMAIN webSocketInstances \cup {key} |->
                                 IF k = key THEN id ELSE webSocketInstances[k]],
                ctrl |-> Append(ctrl, obj),
                services |-> r.services,
                id |-> id, threw |-> r.threw]

\* A getWebSocketInstance that constructs whatever the cache holds.
getWebSocketInstanceAnew(metadata, urlParams, ctor) ==
  LET key == instanceKey(metadata.controllerClass, urlParams)
      id == Len(ctrl) + 1
      r == resolveWebSocketParameters(metadata, urlParams, services, ctor)
      obj == [timezone |-> ArgAt(r.params, 0),
              timezoneService |-> ArgAt(r.params, 1),
              clients |-> {}]
  IN IF r.threw
       THEN [instances |-> webSocketInstances, ctrl |-> ctrl,
             services |-> r.services, id |-> 0, threw |-> TRUE]
       ELSE [instances |-> [k \in DOMAIN webSocketInstances \cup {key} |->
                              IF k = key THEN id ELSE webSocketInstances[k]],
             ctrl |-> Append(ctrl, obj),
             services |-> r.services,
             id |-> id, threw |-> FALSE]

\* getWebSocketInstance: [instances, ctrl, services, id, threw]
getWebSocketInstance(metadata, urlParams, ctor) ==
  LET key == instanceKey(metadata.controllerClass, urlParams)
  IN IF key \in DOMAIN webSocketInstances
       THEN [instances |-> webSocketInstances, ctrl |-> ctrl,
             services |-> services, id |-> webSocketInstances[key], threw |-> FALSE]
       ELSE LET id == Len(ctrl) + 1
                r == resolveWebSocketParameters(metadata, urlParams, services, ctor)
                obj == [timezone |-> ArgAt(r.params, 0),
                        timezoneService |-> ArgAt(r.params, 1),
                        clients |-> {}]
            IN IF r.threw
                 THEN [instances |-> webSocketInstances, ctrl |-> ctrl,
                       services |-> r.services, id |-> 0, threw |-> TRUE]
                 ELSE [instances |-> [k \in DOMAIN webSocketInstances \cup {key} |->
                                        IF k = key THEN id ELSE webSocketInstances[k]],
                       ctrl |-> Append(ctrl, obj),
                       services |-> r.services,
                       id |-> id, threw |-> FALSE]

\* TimezoneWebSocket.sendTimeUpdate: the event emitted to client c.
sendTimeUpdate(c, fmt) ==
  LET result == getValidatedTimeInTimezone(c.timezone, fmt)
  IN IF result.success
       THEN [to |-> c.socket, event |-> "time-update", type |-> "time_update",
             timezone |-> c.timezone, payload |-> <<result.time>>]
       ELSE [to |-> c.socket, event |-> "error", type |-> "error",
             timezone |-> c.timezone, payload |-> result.error]

\* Listeners onConnect installed on socket s, in registration order: one set
\* (disconnect, get-time, change-timezone) per client record made for s.
ListenersOf(s) == { c \in 1..Len(client) : client[c].socket = s }

\* The events sendTimeUpdate emits for the records cs, in ascending order.
RECURSIVE EmitAll(_, _, _)
EmitAll(cs, recs, fmts) ==
  IF cs = {} THEN << >>
  ELSE LET c == CHOOSE x \in cs : \A y \in cs : x <= y
       IN <<sendTimeUpdate(recs[c], fmts[c])>> \o EmitAll(cs \ {c}, recs, fmts)

-----------------------------------------------------------------------------
(* HTTP router *)

\* '/time/:timezone', '/healthcheck', '/'
TimePath == <<"/", "time", "/", ":", "timezone">>
HealthPath == <<"/", "healthcheck">>
RootPath == <<"/">>

\* RoutingRegistry.controllers once the classes are defined and the server
\* has constructed its controllers.  TimezoneController: @PARAM('timezone')
\* (registerParam, index 0) runs before @GET (registerRoute, which finds the
\* route and sets method and path); the constructor adds the service
\* parameter at index 1.  HealthcheckController: two @GET routes, no
\* parameters.
TimezoneControllerMeta ==
  [controllerClass |-> "TimezoneController",
   routes |-> << [method |-> "GET", path |-> TimePath, handler |-> "getTimeByTimezone",
                  paramNames |-> << <<"timezone">> >>,
                  parameters |-> << [index |-> 0, type |-> "param",
                                     name |-> <<"timezone">>, serviceType |-> NoService],
                                    [index |-> 1, type |-> "service", name |-> NoName,
                                     serviceType |-> "TimezoneService"] >>] >>]

HealthcheckControllerMeta ==
  [controllerClass |-> "HealthcheckController",
   routes |-> << [method |-> "GET", path |-> HealthPath, handler |-> "healthcheck",
                  paramNames |-> << >>, parameters |-> << >>],
                 [method |-> "GET", path |-> RootPath, handler |-> "root",
                  paramNames |-> << >>, parameters |-> << >>] >>]

AppRegistry == <<TimezoneControllerMeta, HealthcheckControllerMeta>>

\* router.registerController(timezoneController); ...(healthcheckController)
AppControllers == <<"TimezoneController", "HealthcheckController">>

\* registry.getControllerMetadata(controllerClass): index into registry, 0 = undefined
getControllerMetadata(reg, controllerClass) ==
  LET hits == { i \in 1..Len(reg) : reg[i].controllerClass = controllerClass }
  IN IF hits = {} THEN 0 ELSE CHOOSE i \in hits : TRUE

\* this.webSockets.get(target): its position, 0 for undefined
getWebSocketMetadata(ws, target) ==
  LET hits == { i \in 1..Len(ws) : ws[i].controllerClass = target }
  IN IF hits = {} THEN 0 ELSE CHOOSE i \in hits : TRUE

\* parts.join('/')
RECURSIVE Join(_)
Join(parts) ==
  IF parts = << >> THEN << >>
  ELSE IF Len(parts) = 1 THEN parts[1]
  ELSE parts[1] \o <<"/">> \o Join(Tail(parts))

HexDigits == {"2", "5", "F"}

\* The character a %XY escape stands for, over the hex digits of the model:
\* %22 '"', %25 '%', %2F '/', %52 'R', %55 'U', %5F '_'.  A byte from F2 on
\* opens a UTF-8 sequence no following escape of these digits continues.
DecodeByte(h1, h2) ==
  CASE h1 = "2" /\ h2 = "2" -> <<"\"">>
    [] h1 = "2" /\ h2 = "5" -> <<"%">>
    [] h1 = "2" /\ h2 = "F" -> <<"/">>
    [] h1 = "5" /\ h2 = "2" -> <<"R">>
    [] h1 = "5" /\ h2 = "5" -> <<"U">>
    [] h1 = "5" /\ h2 = "F" -> <<"_">>
    [] OTHER -> << >>

\* A decoder that leaves every escape as written.
keepEscapes(s) == [ok |-> TRUE, value |-> s]

\* decodeURIComponent: [ok, value]; ok = FALSE is URIError('URI malformed').
\* A word token after '%' is no hex pair (no word of the model starts with
\* two hex digits of an ASCII byte).
RECURSIVE decodeURIComponent(_)
decodeURIComponent(s) ==
  IF s = << >> THEN [ok |-> TRUE, value |-> << >>]
  ELSE IF Head(s) # "%"
    THEN LET rest == decodeURIComponent(Tail(s))
         IN [ok |-> rest.ok, value |-> <<Head(s)>> \o rest.value]
  ELSE IF Len(s) < 3 \/ s[2] \notin HexDigits \/ s[3] \notin HexDigits
            \/ DecodeByte(s[2], s[3]) = << >>
    THEN [ok |-> FALSE, value |-> << >>]
  ELSE LET rest == decodeURIComponent(SubSeq(s, 4, Len(s)))
       IN [ok |-> rest.ok, value |-> DecodeByte(s[2], s[3]) \o rest.value]

\* part.startsWith(':')
IsParam(part) == part # << >> /\ Head(part) = ":"

\* params[name] = value
Put(params, name, value) ==
  [k \in DOMAIN params \cup {name} |-> IF k = name THEN value ELSE params[k]]

\* Results of matchRoute: a match with its params, null, or the URIError
\* decodeURIComponent threw.
Matched(params) == [kind |-> "match", params |-> params]
Null == [kind |-> "null", params |-> << >>]
Thrown == [kind |-> "throw", params |-> << >>]

\* "Standard matching for exact length routes": the loop from index i (from 1).
RECURSIVE StandardMatch(_, _, _, _)
StandardMatch(routeParts, pathParts, i, params) ==
  IF i > Len(routeParts) THEN Matched(params)
  ELSE IF IsParam(routeParts[i])
    THEN LET d == decodeURIComponent(pathParts[i])
         IN IF d.ok
              THEN StandardMatch(routeParts, pathParts, i + 1,
                                 Put(params, Tail(routeParts[i]), d.value))
              ELSE Thrown
  ELSE IF routeParts[i] # pathParts[i] THEN Null
  ELSE StandardMatch(routeParts, pathParts, i + 1, params)

Standard(routeParts, pathParts) ==
  IF Len(routeParts) # Len(pathParts) THEN Null
  ELSE StandardMatch(routeParts, pathParts, 1, << >>)

\* Exact-length matching alone, with no trailing-parameter branch.
matchRouteExact(pathname, routePath) == Standard(Parts(routePath), Parts(pathname))

\* Router.matchRoute
matchRoute(pathname, routePath) ==
  LET routeParts == Parts(routePath)
      pathParts == Parts(pathname)
      n == Len(routeParts)
  IN IF n > 0 /\ IsParam(routeParts[n])
       THEN IF \E i \in 1..(n - 1) : i > Len(pathParts) \/ routeParts[i] # pathParts[i]
              THEN Null
              ELSE IF Len(pathParts) >= n
                THEN LET d == decodeURIComponent(Join(SubSeq(pathParts, n, Len(pathParts))))
                     IN IF d.ok THEN Matched(Put(<< >>, Tail(routeParts[n]), d.value))
                        ELSE Thrown
                ELSE Standard(routeParts, pathParts)
       ELSE Standard(routeParts, pathParts)

\* Router.extractParameters: [params, services, threw].  The legacy branch passes
\* req and res first.
ArgReq == [kind |-> "req", str |-> << >>, svc |-> NoInstance]
ArgRes == [kind |-> "res", str |-> << >>, svc |-> NoInstance]

RECURSIVE LegacyParams(_, _, _)
LegacyParams(paramNames, urlParams, params) ==
  IF paramNames = << >> THEN params
  ELSE LegacyParams(Tail(paramNames), urlParams,
         IF Head(paramNames) # NoName /\ Head(paramNames) \in DOMAIN urlParams
           THEN Append(params, ArgString(urlParams[Head(paramNames)]))
           ELSE params)

\* An extractParameters that knows the legacy convention only.
extractParametersLegacy(urlParams, route, svcs, ctor) ==
  [params |-> LegacyParams(route.paramNames, urlParams, <<ArgReq, ArgRes>>),
   services |-> svcs, threw |-> FALSE]

extractParameters(urlParams, route, svcs, ctor) ==
  IF Len(route.parameters) = 0
    THEN [params |-> LegacyParams(route.paramNames, urlParams, <<ArgReq, ArgRes>>),
          services |-> svcs, threw |-> FALSE]
    ELSE FillParameters(SortByIndex(route.parameters), urlParams, << >>, svcs, ctor)

\* String.prototype.startsWith for a keyword that is one token of the message.
StartsWith(message, word) == message # << >> /\ message[1] = word

\* String.prototype.includes for a keyword that is one token of the message.
Includes(message, word) == \E i \in 1..Len(message) : message[i] = word

\* Response bodies (the object handed to JSON.stringify).
Body(kind, error, message, timezone, hasRequested, requested, example) ==
  [kind |-> kind, error |-> error, message |-> message, timezone |-> timezone,
   hasRequested |-> hasRequested, requested_timezone |-> requested, example |-> example]

NoBody == Body("none", "", << >>, << >>, FALSE, << >>, << >>)
TimeBody(timezone) == Body("time", "", << >>, timezone, FALSE, << >>, << >>)
HealthBody == Body("health", "", << >>, << >>, FALSE, << >>, << >>)
InfoBody == Body("info", "", << >>, << >>, FALSE, << >>, <<"/", "time", "/", "Etc", "/", "UTC">>)

\* res.setHeader calls at the top of handleRequest.
CorsHeaders ==
  { <<"Access-Control-Allow-Origin", "*">>,
    <<"Access-Control-Allow-Methods", "GET, POST, PUT, DELETE">>,
    <<"Access-Control-Allow-Headers", "Content-Type">>,
    <<"Content-Type", "application/json">> }

NoRequest == [method |-> "", url |-> << >>]
NoResponse == [headers |-> {}, statusCode |-> 200, body |-> NoBody, ended |-> 0]

\* sendJsonResponse
sendJsonResponse(r, statusCode, data) ==
  [headers |-> r.headers \cup { <<"Content-Type", "application/json">> },
   statusCode |-> statusCode, body |-> data, ended |-> r.ended + 1]

\* sendErrorResponse; additionalData is the request's timezone parameter
\* ({requested_timezone: ...}), the 404's example, or undefined.
sendErrorResponse(r, statusCode, error, message, hasRequested, requested, example) ==
  sendJsonResponse(r, statusCode,
                   Body("error", error, message, << >>, hasRequested, requested, example))

\* What a call of a handler or of a service method ends in.
Return(body) == [kind |-> "return", body |-> body, isError |-> TRUE, message |-> << >>]
Void == [kind |-> "void", body |-> NoBody, isError |-> TRUE, message |-> << >>]
Throw(isError, message) ==
  [kind |-> "throw", body |-> NoBody, isError |-> isError, message |-> message]

\* Messages a registered mock service fails with.
Messages == { <<"Service", " ", "error">>, <<"Invalid", " ", "input">>,
              <<"no", " ", "such", " ", "timezone">>, <<"invalid", " ", "Timezone">> }

\* What getValidatedTimeInTimezone of a registered mock does: returns a
\* success, a failure result, undefined, or throws an Error or another value.
MockResult(kind, success, isError, message) ==
  [kind |-> kind, success |-> success, isError |-> isError, message |-> message]

MockOutcomes ==
  { MockResult("result", TRUE, TRUE, << >>), MockResult("undefined", FALSE, TRUE, << >>) }
  \cup { MockResult("result", FALSE, TRUE, m) : m \in Messages }
  \cup { MockResult("throw", FALSE, e, m) : e \in BOOLEAN, m \in Messages }

TypeErrorMessage ==
  <<"Cannot", " ", "read", " ", "properties", " ", "of", " ", "undefined">>

\* TimezoneController.getTimeByTimezone(timezone, timezoneService)
getTimeByTimezone(args, fmt, mock) ==
  LET timezone == ArgAt(args, 0)
      timezoneService == ArgAt(args, 1)
  IN IF timezoneService.kind # "service" THEN Throw(TRUE, TypeErrorMessage)
     ELSE IF timezoneService.svc.mock
       THEN CASE mock.kind = "throw" -> Throw(mock.isError, mock.message)
              [] mock.kind = "undefined" -> Throw(TRUE, TypeErrorMessage)
              [] mock.kind = "result" /\ ~mock.success -> Throw(TRUE, mock.message)
              [] OTHER -> Return(TimeBody(timezone.str))
       ELSE LET result == getValidatedTimeInTimezone(timezone.str, fmt)
            IN IF ~result.success THEN Throw(TRUE, result.error)
               ELSE Return(TimeBody(timezone.str))

\* handler.apply(controller, params)
Apply(handler, args, fmt, mock) ==
  CASE handler = "getTimeByTimezone" -> getTimeByTimezone(args, fmt, mock)
    [] handler = "healthcheck" -> Return(HealthBody)
    [] handler = "root" -> Return(InfoBody)
    [] OTHER -> Void

\* The routes handleRequest walks, in its order: controllers as registered
\* with the router, each one's routes as the registry holds them.
RECURSIVE RouteList(_, _)
RouteList(ctrls, reg) ==
  IF ctrls = << >> THEN << >>
  ELSE LET m == getControllerMetadata(reg, Head(ctrls))
       IN (IF m = 0 THEN << >> ELSE reg[m].routes) \o RouteList(Tail(ctrls), reg)

DefaultMessage ==
  <<"An", " ", "error", " ", "occurred", " ", "while", " ", "processing", " ",
    "the", " ", "request">>

\* The message of the Error a throwing service constructor throws.
CtorMessage == <<"Constructor", " ", "error">>

\* What handleRequest called: the handler, the parameters matched from the
\* path, the argument list extractParameters returned (none when it threw)
\* and how the call (parameter extraction included) ended.
Call(handler, params, args, result) ==
  [handler |-> handler, params |-> params, args |-> args, result |-> result]
NoCall == Call("", << >>, << >>, Void)

\* The try block of handleRequest for a matched route:
\* [res, services, handled, call]
Dispatch(route, match, r, svcs, fmt, mock, ctor) ==
  LET ex == extractParameters(match.params, route, svcs, ctor)
      result == IF ex.threw THEN Throw(TRUE, CtorMessage)
                ELSE Apply(route.handler, ex.params, fmt, mock)
      errorMessage == IF result.isError THEN result.message ELSE DefaultMessage
      isValidationError == Includes(errorMessage, "timezone") \/ Includes(errorMessage, "Invalid")
      hasTz == <<"timezone">> \in DOMAIN match.params
  IN [services |-> ex.services,
      handled |-> "true",
      call |-> Call(route.handler, match.params,
                   IF ex.threw THEN << >> ELSE ex.params, result),
      res |-> CASE result.kind = "return" -> sendJsonResponse(r, 200, result.body)
                [] result.kind = "void" -> r
                [] OTHER ->
                     sendErrorResponse(r, IF isValidationError THEN 400 ELSE 500,
                       IF isValidationError THEN "Invalid timezone"
                                            ELSE "Internal server error",
                       errorMessage,
                       isValidationError /\ hasTz,
                       IF isValidationError /\ hasTz
                         THEN match.params[<<"timezone">>] ELSE << >>,
                       << >>)]

\* req.url -> url.parse(...).pathname, for URLs with no query and no hash.
Pathname(url) == url

\* A loop that tries every route, whatever its method.
RECURSIVE FindRouteAnyMethod(_, _, _, _, _, _, _)
FindRouteAnyMethod(routes, request, r, svcs, fmt, mock, ctor) ==
  IF routes = << >>
    THEN [services |-> svcs, handled |-> "false", call |-> NoCall, res |-> r]
  ELSE LET match == matchRoute(Pathname(request.url), Head(routes).path)
       IN CASE match.kind = "throw" ->
                 [services |-> svcs, handled |-> "threw", call |-> NoCall, res |-> r]
            [] match.kind = "match" ->
                 Dispatch(Head(routes), match, r, svcs, fmt, mock, ctor)
            [] OTHER -> FindRouteAnyMethod(Tail(routes), request, r, svcs, fmt, mock, ctor)

\* The loop of handleRequest over the routes left to try.
RECURSIVE FindRoute(_, _, _, _, _, _, _)
FindRoute(routes, request, r, svcs, fmt, mock, ctor) ==
  IF routes = << >>
    THEN [services |-> svcs, handled |-> "false", call |-> NoCall, res |-> r]
  ELSE IF Head(routes).method # request.method
    THEN FindRoute(Tail(routes), request, r, svcs, fmt, mock, ctor)
  ELSE LET match == matchRoute(Pathname(request.url), Head(routes).path)
       IN CASE match.kind = "throw" ->
                 [services |-> svcs, handled |-> "threw", call |-> NoCall, res |-> r]
            [] match.kind = "match" ->
                 Dispatch(Head(routes), match, r, svcs, fmt, mock, ctor)
            [] OTHER -> FindRoute(Tail(routes), request, r, svcs, fmt, mock, ctor)

\* A handleRequest that leaves the headers to whoever writes the response.
handleRequestBare(request, r, svcs, fmt, mock, ctor) ==
  FindRoute(RouteList(controllers, registry), request, r, svcs, fmt, mock, ctor)

\* Router.handleRequest: [res, services, handled, call]; handled is "true",
\* "false", or "threw" when the promise rejects.
handleRequest(request, r, svcs, fmt, mock, ctor) ==
  FindRoute(RouteList(controllers, registry), request,
            [r EXCEPT !.headers = CorsHeaders], svcs, fmt, mock, ctor)

NotFoundMessage == <<"Use", " ", "/time/{timezone}", " ", "endpoint">>
UnexpectedMessage == <<"An", " ", "unexpected", " ", "error", " ", "occurred">>

\* The server's request listener once handleRequest has settled.
Listener(r, how) ==
  CASE how = "false" ->
         sendErrorResponse(r, 404, "Not found", NotFoundMessage, FALSE, << >>,
                           <<"/", "time", "/", "Etc", "/", "UTC">>)
    [] how = "threw" ->
         sendErrorResponse(r, 500, "Internal server error", UnexpectedMessage,
                           FALSE, << >>, << >>)
    [] OTHER -> r

\* A mock whose getValidatedTimeInTimezone succeeds.
DefaultMock == MockResult("result", TRUE, TRUE, << >>)

\* What the surroundings did during one request: the engine's formatting
\* outcome, the registered mock's behaviour, the service constructor's
\* outcome, and the ServiceRegistry the request found.
Env(fmt, mock, ctor, svcs) == [fmt |-> fmt, mock |-> mock, ctor |-> ctor, services |-> svcs]
NoEnv == Env("ok", DefaultMock, Returns(0), << >>)

\* The outcomes the engine can have for timezone: formatting is reached
\* only by an identifier that passed validation.
OutcomesOf(timezone) == IF isValidTimezone(timezone) THEN FormatOutcomes ELSE {"ok"}

\* One engine outcome per sendTimeUpdate call made for the records cs, each
\* for the timezone its record then holds.
OutcomesFor(cs, timezone) ==
  { f \in [cs -> FormatOutcomes] : \A c \in cs : f[c] \in OutcomesOf(timezone[c]) }

\* The outcomes a service constructor can have: none runs for a service the
\* registry holds.
CtorOutcomesIn(svcs) == IF svcs = << >> THEN CtorOutcomes ELSE {Returns(constructed + 1)}

\* The same for one service type of a registry that holds several.
CtorOutcomesFor(svcs, serviceType) ==
  IF serviceType \in DOMAIN svcs THEN {Returns(constructed + 1)} ELSE CtorOutcomes

NoOp == [op |-> "init", sock |-> 0, tz |-> << >>]

\* The service types of the application and of the registry's tests.
ServiceIds == {"TimezoneService", "MockService"}

\* A ServiceRegistry call: before and built are the services map and the
\* number of objects constructed when it began, earlier is given[id] then;
\* result is what it returned (NoInstance: undefined or nothing).
RegCall(op, id, result, threw, before, built, earlier) ==
  [op |-> op, id |-> id, result |-> result, threw |-> threw, before |-> before,
   built |-> built, earlier |-> earlier]
NoRegCall == RegCall("none", NoService, NoInstance, FALSE, << >>, 0, NoInstance)

\* No ServiceRegistry call has been followed yet.
RegistryIdle ==
  /\ regCall = NoRegCall
  /\ given = [id \in ServiceIds |-> NoInstance]
  /\ dropped = << >>

\* What cleaned says before any cleanup.
NoCleanup == [cached |-> {}, invoked |-> {}, failed |-> {}]

\* A registration call as regOp keeps it: the registry method, its target
\* class, handler, method and path arguments where it has them, and the
\* controllers map it found.
RegOp(op, target, handler, method, path, before) ==
  [op |-> op, target |-> target, handler |-> handler, method |-> method, path |-> path,
   before |-> before]
NoRegOp == RegOp("none", "", "", "", << >>, << >>)

\* No registration call has been followed; the application is built with
\* emitDecoratorMetadata, as TimezoneWebSocketMeta has it.
RegistrationIdle ==
  /\ emitsMetadata = TRUE
  /\ regOp = NoRegOp
  /\ paramsOnly = << >>
  /\ routeCalls = << >>
  /\ calls = 0

\* No socket has connected and no WebSocket route is registered.
SocketsIdle ==
  /\ webSockets = << >>
  /\ sockState = [s \in Sockets |-> "idle"]
  /\ rooms = {}
  /\ webSocketInstances = << >>
  /\ ctrl = << >>
  /\ client = << >>
  /\ closed = FALSE
  /\ lastEmit = << >>
  /\ lastOp = NoOp
  /\ tickUpdates = [s \in Sockets |-> 0]
  /\ tickErrors = [s \in Sockets |-> 0]
  /\ subAtStart = [s \in Sockets |-> FALSE]

\* No request has arrived.
RouterIdle ==
  /\ req = NoRequest
  /\ res = NoResponse
  /\ handled = "none"
  /\ call = NoCall
  /\ env = NoEnv
  /\ pc = "idle"

Init ==
  /\ webSockets \in WebSocketConfigs
  /\ services = << >>
  /\ constructed = 0
  /\ sockState = [s \in Sockets |-> "idle"]
  /\ rooms = {}
  /\ webSocketInstances = << >>
  /\ ctrl = << >>
  /\ client = << >>
  /\ closed = FALSE
  /\ lastEmit = << >>
  /\ lastOp = NoOp
  /\ tickUpdates = [s \in Sockets |-> 0]
  /\ tickErrors = [s \in Sockets |-> 0]
  /\ subAtStart = [s \in Sockets |-> FALSE]
  /\ registry = AppRegistry
  /\ controllers = AppControllers
  /\ req = NoRequest
  /\ res = NoResponse
  /\ handled = "none"
  /\ call = NoCall
  /\ env = NoEnv
  /\ pc = "idle"
  /\ RegistryIdle
  /\ RegistrationIdle
  /\ cleaned = NoCleanup

\* io.on('connection')
Connect(s) ==
  /\ ~closed
  /\ sockState[s] = "idle"
  /\ sockState' = [sockState EXCEPT ![s] = "connected"]
  /\ lastEmit' = << >>
  /\ lastOp' = [op |-> "connect", sock |-> s, tz |-> << >>]
  /\ UNCHANGED <<rvars, avars>>
  /\ UNCHANGED <<webSockets, services, constructed, rooms, webSocketInstances, ctrl, client,
                 closed, tickUpdates, tickErrors, subAtStart>>

\* The SocketIOClient object handleTimezoneSubscription builds, after
\* onConnect stored its interval.  due: the interval's callback is owed for
\* the current second; subscribed and controller remember the topic value of
\* the subscribe-timezone event and the controller whose onConnect ran.
NewClient(s, timezone, id) ==
  [socket |-> s, timezone |-> timezone, intervalId |-> TRUE, due |-> FALSE,
   subscribed |-> timezone, controller |-> id]

\* TimezoneWebSocket.onConnect of controller id, on the heap ctrl0.
onConnect(id, s, timezone, fmt, ctrl0) ==
  /\ client' = Append(client, NewClient(s, timezone, id))
  /\ ctrl' = [ctrl0 EXCEPT ![id].clients = @ \cup {Len(client) + 1}]
  /\ lastEmit' = <<sendTimeUpdate(NewClient(s, timezone, id), fmt)>>

\* socket.on('subscribe-timezone') -> handleTimezoneSubscription
\* A subscribe-timezone handler call as lastOp keeps it; threw: the call
\* ended in an exception that reached its caller.
SubscribeOp(s, timezone, threw) ==
  [op |-> "subscribe", sock |-> s, tz |-> timezone, threw |-> threw]

\* A handler with no catch block: the error leaves it and nothing is emitted.
rethrowConstructionError(s) == [emit |-> << >>, threw |-> TRUE]

\* The catch block of handleTimezoneSubscription around getWebSocketInstance
\* and onConnect: what it emits to socket s, and whether the error goes on
\* to the caller.
catchConstructionError(s) ==
  [emit |-> << [to |-> s, event |-> "error", type |-> "none", timezone |-> << >>,
                payload |-> <<"Internal", " ", "server", " ", "error">>] >>,
   threw |-> FALSE]

handleTimezoneSubscription(s, timezone, fmt, ctor) ==
  /\ sockState[s] = "connected"
  /\ Len(client) < MaxClients
  /\ rooms' = rooms \cup {<<s, <<"timezone-">> \o timezone>>}
  /\ LET m == FirstMatch(timezone)
     IN IF m = 0
          THEN /\ lastEmit' = << [to |-> s, event |-> "error", type |-> "none",
                                  timezone |-> << >>,
                                  payload |-> <<"Route", " ", "not", " ", "found">>] >>
               /\ lastOp' = SubscribeOp(s, timezone, FALSE)
               /\ UNCHANGED <<services, constructed, webSocketInstances, ctrl, client>>
          ELSE LET got == getWebSocketInstance(webSockets[m],
                            matchTimezoneRoute(timezone, webSockets[m].path).params, ctor)
               IN IF got.threw
                    THEN /\ lastEmit' = catchConstructionError(s).emit
                         /\ lastOp' = SubscribeOp(s, timezone, catchConstructionError(s).threw)
                         /\ webSocketInstances' = got.instances
                         /\ ctrl' = got.ctrl
                         /\ services' = got.services
                         /\ constructed' = constructed + Constructions(services, got.services)
                         /\ UNCHANGED client
                    ELSE /\ webSocketInstances' = got.instances
                         /\ services' = got.services
                         /\ constructed' = constructed + Constructions(services, got.services)
                         /\ onConnect(got.id, s, timezone, fmt, got.ctrl)
                         /\ lastOp' = SubscribeOp(s, timezone, FALSE)
  /\ UNCHANGED <<rvars, avars>>
  /\ UNCHANGED <<webSockets, sockState, closed, tickUpdates, tickErrors, subAtStart>>

\* client.socket.on('get-time'): every listener pushes to its own record.
GetTime(s, fmts) ==
  /\ sockState[s] = "connected"
  /\ ListenersOf(s) # {}
  /\ lastEmit' = EmitAll(ListenersOf(s), client, fmts)
  /\ lastOp' = [op |-> "get-time", sock |-> s, tz |-> << >>]
  /\ UNCHANGED <<rvars, avars>>
  /\ UNCHANGED <<webSockets, services, constructed, sockState, rooms, webSocketInstances, ctrl,
                 client, closed, tickUpdates, tickErrors, subAtStart>>

\* client.socket.on('change-timezone'): every listener rebinds its own record
\* and pushes.
ChangeTimezone(s, timezone, fmts) ==
  /\ sockState[s] = "connected"
  /\ ListenersOf(s) # {}
  /\ client' = [c \in 1..Len(client) |->
                  IF c \in ListenersOf(s)
                    THEN [client[c] EXCEPT !.timezone = timezone] ELSE client[c]]
  /\ lastEmit' = EmitAll(ListenersOf(s), client', fmts)
  /\ lastOp' = [op |-> "change-timezone", sock |-> s, tz |-> timezone]
  /\ UNCHANGED <<rvars, avars>>
  /\ UNCHANGED <<webSockets, services, constructed, sockState, rooms, webSocketInstances, ctrl,
                 closed, tickUpdates, tickErrors, subAtStart>>

\* The client heap when onDisconnect leaves the intervals running.
KeepIntervals(cs) == client

\* An onDisconnect that cancels the timer of every record.
ClearEveryInterval(cs) ==
  [c \in 1..Len(client) |-> [client[c] EXCEPT !.intervalId = FALSE, !.due = FALSE]]

\* TimezoneWebSocket.onDisconnect for the records cs: the client heap after
\* clearInterval.
ClearIntervals(cs) ==
  [c \in 1..Len(client) |->
     IF c \in cs THEN [client[c] EXCEPT !.intervalId = FALSE, !.due = FALSE]
     ELSE client[c]]

\* An onDisconnect that empties the set of every controller.
DeleteEveryClient(heap, cs) ==
  [i \in 1..Len(heap) |-> [heap[i] EXCEPT !.clients = {}]]

\* TimezoneWebSocket.onDisconnect for the records cs: the controller heap
\* after this.clients.delete(client), each on the record's own controller.
DeleteClients(heap, cs) ==
  [i \in 1..Len(heap) |->
     [heap[i] EXCEPT !.clients = @ \ { c \in cs : client[c].controller = i }]]

\* The socket's 'disconnect' event: SocketServer.handleDisconnect (empty) and
\* the onDisconnect listener of every record made for s; socket.io leaves
\* the socket's rooms.
Disconnect(s) ==
  /\ sockState[s] = "connected"
  /\ sockState' = [sockState EXCEPT ![s] = "disconnected"]
  /\ client' = ClearIntervals(ListenersOf(s))
  /\ ctrl' = DeleteClients(ctrl, ListenersOf(s))
  /\ rooms' = { r \in rooms : r[1] # s }
  /\ lastEmit' = << >>
  /\ lastOp' = [op |-> "disconnect", sock |-> s, tz |-> << >>]
  /\ UNCHANGED <<rvars, avars>>
  /\ UNCHANGED <<webSockets, services, constructed, webSocketInstances, closed,
                 tickUpdates, tickErrors, subAtStart>>

\* The setInterval callback of record c.
TimerFire(c, fmt) ==
  /\ c \in 1..Len(client)
  /\ client[c].intervalId
  /\ client[c].due
  /\ client' = [client EXCEPT ![c].due = FALSE]
  /\ lastEmit' = <<sendTimeUpdate(client[c], fmt)>>
  /\ lastOp' = [op |-> "tick", sock |-> client[c].socket, tz |-> client[c].timezone]
  /\ LET e == sendTimeUpdate(client[c], fmt)
     IN /\ tickUpdates' = [tickUpdates EXCEPT
                             ![e.to] = @ + (IF e.event = "time-update" THEN 1 ELSE 0)]
        /\ tickErrors' = [tickErrors EXCEPT
                            ![e.to] = @ + (IF e.event = "error" THEN 1 ELSE 0)]
  /\ UNCHANGED <<rvars, avars>>
  /\ UNCHANGED <<webSockets, services, constructed, sockState, rooms, webSocketInstances, ctrl,
                 closed, subAtStart>>

ActiveTimers == { c \in 1..Len(client) : client[c].intervalId }

\* One second (the interval's period) passes: every running interval has
\* fired once and owes its next callback.
AdvanceSecond ==
  /\ ActiveTimers # {}
  /\ \A c \in ActiveTimers : ~client[c].due
  /\ client' = [c \in 1..Len(client) |->
                  IF c \in ActiveTimers THEN [client[c] EXCEPT !.due = TRUE]
                  ELSE client[c]]
  /\ tickUpdates' = [s \in Sockets |-> 0]
  /\ tickErrors' = [s \in Sockets |-> 0]
  /\ subAtStart' = [s \in Sockets |-> \E c \in ActiveTimers : client[c].socket = s]
  /\ lastEmit' = << >>
  /\ lastOp' = [op |-> "second", sock |-> 0, tz |-> << >>]
  /\ UNCHANGED <<rvars, avars>>
  /\ UNCHANGED <<webSockets, services, constructed, sockState, rooms, webSocketInstances, ctrl,
                 closed>>

\* SocketServer.cleanup: every cached controller's cleanup() clears its
\* clients' intervals and disconnects their sockets (which runs the sockets'
\* disconnect listeners), the cache is cleared and io.close() disconnects
\* whatever is still connected.
Cleanup ==
  /\ ~closed
  /\ closed' = TRUE
  /\ sockState' = [s \in Sockets |->
                     IF sockState[s] = "connected" THEN "disconnected" ELSE sockState[s]]
  /\ client' = ClearIntervals(1..Len(client))
  /\ ctrl' = [i \in 1..Len(ctrl) |-> [ctrl[i] EXCEPT !.clients = {}]]
  /\ webSocketInstances' = << >>
  /\ rooms' = {}
  /\ lastEmit' = << >>
  /\ lastOp' = [op |-> "cleanup", sock |-> 0, tz |-> << >>]
  /\ UNCHANGED <<rvars, avars>>
  /\ UNCHANGED <<webSockets, services, constructed, tickUpdates, tickErrors, subAtStart>>

Next ==
  \/ \E s \in Sockets : Connect(s)
  \/ \E s \in Sockets, tz \in Topics :
       \E fmt \in OutcomesOf(tz), ctor \in CtorOutcomesIn(services) :
         handleTimezoneSubscription(s, tz, fmt, ctor)
  \/ \E s \in Sockets :
       \E fmts \in OutcomesFor(ListenersOf(s),
                                [c \in ListenersOf(s) |-> client[c].timezone]) :
         GetTime(s, fmts)
  \/ \E s \in Sockets, tz \in Topics :
       \E fmts \in OutcomesFor(ListenersOf(s), [c \in ListenersOf(s) |-> tz]) :
         ChangeTimezone(s, tz, fmts)
  \/ \E s \in Sockets : Disconnect(s)
  \/ \E c \in 1..Len(client) : \E fmt \in OutcomesOf(client[c].timezone) :
       TimerFire(c, fmt)
  \/ AdvanceSecond
  \/ Cleanup

Spec == Init /\ [][Next]_vars

-----------------------------------------------------------------------------
(* Properties of the subscription server *)

\* The records made for socket s whose interval is running.
TimersOf(s) == { c \in 1..Len(client) : client[c].socket = s /\ client[c].intervalId }

\* C1: after any sequence of subscribe-timezone events a connection has at
\* most one active periodic timer (a re-subscribe cancels the timer of the
\* connection's previous record before the new one is started).
C1_AtMostOneTimer == \A s \in Sockets : Cardinality(TimersOf(s)) <= 1

\* C2: a subscribe whose computation succeeds emits exactly one time-update
\* to the connection at once, and the timer callbacks emit exactly one
\* further time-update to it per elapsed second while it stays subscribed:
\* never more than one within a second, and one in every second in which
\* all callbacks owed to it have run without a failed computation.
C2_OneUpdatePerSecond ==
  /\ (lastOp.op = "subscribe" /\ lastEmit # << >> /\ lastEmit[1].event = "time-update")
       => /\ Len(lastEmit) = 1
          /\ lastEmit[1].to = lastOp.sock
  /\ \A s \in Sockets :
       /\ tickUpdates[s] <= 1
       /\ ( /\ subAtStart[s]
            /\ sockState[s] = "connected"
            /\ tickErrors[s] = 0
            /\ \A c \in TimersOf(s) : ~client[c].due )
          => tickUpdates[s] = 1

\* C3: once a connection's disconnect has been handled nothing is emitted
\* to it any more, whatever subscribe-timezone, get-time and change-timezone
\* events came before: the intervals of its records are cancelled and its
\* records are in no controller's connection set.
C3_NothingAfterDisconnect ==
  \A s \in Sockets : sockState[s] = "disconnected" =>
    /\ \A i \in 1..Len(lastEmit) : lastEmit[i].to # s
    /\ TimersOf(s) = {}
    /\ \A i \in 1..Len(ctrl) : \A c \in ctrl[i].clients : client[c].socket # s

\* A disconnected connection that had subscribed and changed its timezone,
\* seen right after another connection's timer callback ran.
C3_Witness ==
  /\ lastOp.op = "tick"
  /\ lastEmit # << >>
  /\ \E c \in 1..Len(client) :
       /\ sockState[client[c].socket] = "disconnected"
       /\ client[c].timezone # client[c].subscribed

\* C4: connections that subscribed with the same topic value are served by
\* one and the same controller instance, whose connection set holds all of
\* them, and connections that subscribed with different topic values are
\* served by different instances.
C4_InstancePerTopic ==
  /\ \A c1, c2 \in 1..Len(client) :
       (client[c1].subscribed = client[c2].subscribed)
         <=> (client[c1].controller = client[c2].controller)
  /\ \A i \in 1..Len(ctrl) :
       ctrl[i].clients = { c \in 1..Len(client) :
                            client[c].controller = i /\ client[c].intervalId }

\* Two connections subscribed with the same topic value: one controller,
\* whose connected count is 2.
C4_Witness ==
  \E c1, c2 \in 1..Len(client) :
    /\ client[c1].socket # client[c2].socket
    /\ client[c1].subscribed = client[c2].subscribed
    /\ client[c1].controller = client[c2].controller
    /\ Cardinality(ctrl[client[c1].controller].clients) = 2

-----------------------------------------------------------------------------
(* HTTP server: one request from arrival to the response *)

MaxIdLen == 4
MaxUrlLen == 3

SeqsUpTo(S, n) == UNION { [1..k -> S] : k \in 0..n }

\* Identifiers as a client writes them after /time/: raw or percent-encoded.
IdTokens == {"/", "%", "2", "5", "F", "UTC"}

LongIds == { <<"Etc", "/", "UTC">>,
             <<"Etc", "%", "2", "F", "UTC">>,
             <<"Etc", "/", "/", "UTC">>,
             <<"Etc", "%", "2", "F", "/", "UTC">>,
             <<"Etc", "%", "2", "5", "UTC">>,
             <<"America", "/", "Argentina", "/", "Buenos_Aires">>,
             <<"America", "%", "2", "F", "Argentina", "/", "Buenos_Aires">>,
             <<"America", "/", "Argentina", "%", "2", "F", "Buenos_Aires">>,
             <<"America", "/", "Argentina", "/", "Nowhere">> }

RawIds == SeqsUpTo(IdTokens, MaxIdLen) \cup LongIds

UrlTokens == {"/", "time", "healthcheck", "UTC", "%"}

\* GET /time/{id}, and short URLs with either method.
TimeRequests == { [method |-> "GET", url |-> <<"/", "time", "/">> \o id] : id \in RawIds }
OtherRequests == { [method |-> m, url |-> u] :
                     m \in {"GET", "POST"}, u \in SeqsUpTo(UrlTokens, MaxUrlLen) }

\* ServiceRegistry and the number of objects constructed when the request
\* arrives: empty, holding the instance an
\* earlier request created, or holding a registered mock.
ServiceStates ==
  { << << >>, 0 >>,
    << "TimezoneService" :> Service("TimezoneService", 1), 1 >>,
    << "TimezoneService" :> MockService("TimezoneService"), 0 >> }

RouterInit ==
  /\ webSockets = << >>
  /\ sockState = [s \in Sockets |-> "idle"]
  /\ rooms = {}
  /\ webSocketInstances = << >>
  /\ ctrl = << >>
  /\ client = << >>
  /\ closed = FALSE
  /\ lastEmit = << >>
  /\ lastOp = NoOp
  /\ tickUpdates = [s \in Sockets |-> 0]
  /\ tickErrors = [s \in Sockets |-> 0]
  /\ subAtStart = [s \in Sockets |-> FALSE]
  /\ registry = AppRegistry
  /\ controllers = AppControllers
  /\ \/ req \in TimeRequests
     \/ req \in OtherRequests
  /\ \E state \in ServiceStates : services = state[1] /\ constructed = state[2]
  /\ res = NoResponse
  /\ handled = "none"
  /\ call = NoCall
  /\ env = NoEnv
  /\ pc = "idle"
  /\ RegistryIdle
  /\ RegistrationIdle
  /\ cleaned = NoCleanup

\* Whether the registry holds a registered mock of TimezoneService.
HasMock(svcs) == "TimezoneService" \in DOMAIN svcs /\ svcs["TimezoneService"].mock

\* router.handleRequest(req, res) up to the point its promise settles.  An
\* outcome nothing can consult keeps its default: no constructor runs for a
\* service the registry holds, the engine is not behind a mock, and a mock
\* exists only when registered.
HandleRequest(fmt, mock, ctor) ==
  /\ pc = "idle"
  /\ services # << >> => ~ctor.threw
  /\ (HasMock(services) \/ ctor.threw) => fmt = "ok"
  /\ ~HasMock(services) => mock = DefaultMock
  /\ LET h == handleRequest(req, res, services, fmt, mock, ctor)
     IN /\ res' = h.res
        /\ services' = h.services
        /\ constructed' = constructed + Constructions(services, h.services)
        /\ handled' = h.handled
        /\ call' = h.call
  /\ env' = Env(fmt, mock, ctor, services)
  /\ pc' = "routed"
  /\ UNCHANGED <<svars, avars, registry, controllers, req>>

\* The request listener resumes after `await router.handleRequest(req, res)`.
Respond ==
  /\ pc = "routed"
  /\ res' = Listener(res, handled)
  /\ pc' = "done"
  /\ UNCHANGED <<services, constructed, svars, avars, registry, controllers, req, handled,
                 call, env>>

RouterNext ==
  \/ \E fmt \in FormatOutcomes, mock \in MockOutcomes, ctor \in CtorOutcomes :
       HandleRequest(fmt, mock, ctor)
  \/ Respond

RouterSpec == RouterInit /\ [][RouterNext]_vars

-----------------------------------------------------------------------------
(* Properties of the HTTP server *)

TimePrefix == <<"/", "time", "/">>

\* What the URL holds after '/time/'.
Written(url) == SubSeq(url, Len(TimePrefix) + 1, Len(url))

\* r has no empty segment: no leading, trailing or doubled '/'.
NoEmptySegment(r) ==
  r # << >> => /\ r[1] # "/"
               /\ r[Len(r)] # "/"
               /\ \A i \in 1..(Len(r) - 1) : ~(r[i] = "/" /\ r[i + 1] = "/")

\* The request is GET /time/{id}: the URL is '/time/' followed by id, written
\* with its characters raw or as well-formed percent escapes, a raw '/'
\* only between two non-empty segments.
IsTimeRequestFor(id) ==
  /\ req.method = "GET"
  /\ Len(req.url) >= Len(TimePrefix)
  /\ SubSeq(req.url, 1, Len(TimePrefix)) = TimePrefix
  /\ NoEmptySegment(Written(req.url))
  /\ decodeURIComponent(Written(req.url)).ok
  /\ decodeURIComponent(Written(req.url)).value = id

\* The identifier the URL of the request in hand stands for.
RequestedId == decodeURIComponent(Written(req.url)).value

\* The request was served by the application's own TimezoneService.
RealService == ~HasMock(env.services) /\ ~env.ctor.threw

\* C5 as stated: every id the engine rejects, the empty string included,
\* gets status 400 with requested_timezone = id from GET /time/{id}.
C5_RejectedIs400 ==
  ( /\ pc = "done"
    /\ IsTimeRequestFor(RequestedId)
    /\ ~isValidTimezone(RequestedId)
    /\ RealService )
  => /\ res.statusCode = 400
     /\ res.body.hasRequested
     /\ res.body.requested_timezone = RequestedId

\* C5, amended: every non-empty id the engine rejects gets status 400 with
\* error 'Invalid timezone' and requested_timezone = id from GET /time/{id};
\* the empty id leaves the URL '/time/', which no route matches.
C5_NonEmptyRejectedIs400 ==
  ( /\ pc = "done"
    /\ IsTimeRequestFor(RequestedId)
    /\ RequestedId # << >>
    /\ ~isValidTimezone(RequestedId)
    /\ RealService )
  => /\ res.statusCode = 400
     /\ res.body.error = "Invalid timezone"
     /\ res.body.hasRequested
     /\ res.body.requested_timezone = RequestedId
     /\ res.ended = 1

\* The rejected id 'Etc%UTC', its '%' written as %25, was answered 400.
C5_Witness ==
  /\ pc = "done"
  /\ IsTimeRequestFor(<<"Etc", "%", "UTC">>)
  /\ Written(req.url) = <<"Etc", "%", "2", "5", "UTC">>
  /\ RealService
  /\ res.statusCode = 400

C7_TrailingParameter ==
  pc # "idle" =>
    LET pathParts == Parts(req.url)
        m == matchRoute(req.url, TimePath)
    IN IF Len(pathParts) >= 2 /\ pathParts[1] = <<"time">>
         THEN /\ m.kind = "match"
              /\ DOMAIN m.params = { <<"timezone">> }
              /\ LET d == decodeURIComponent(Join(SubSeq(pathParts, 2, Len(pathParts))))
                 IN d.ok => m.params[<<"timezone">>] = d.value
         ELSE m.kind = "null"

\* The '/' of the URL that belong to the captured parameter: those after the
\* first segment of the remainder, between two non-empty segments.
CapturedSlashes(url) ==
  { i \in 2..(Len(url) - 1) :
      /\ url[i] = "/"
      /\ url[i - 1] # "/"
      /\ url[i + 1] # "/"
      /\ Len(Parts(SubSeq(url, 1, i - 1))) >= 2
      /\ Parts(SubSeq(url, 1, i - 1))[1] = <<"time">> }

\* The URL with its i-th character, a '/', written as %2F.
WithEscape(url, i) ==
  SubSeq(url, 1, i - 1) \o <<"%", "2", "F">> \o SubSeq(url, i + 1, Len(url))

\* C8: writing a '/' of the captured parameter as %2F changes nothing: the
\* same request with the escape in place ends handleRequest the same way,
\* with the same route's handler called on the same parameter value and
\* the same response.
C8_EscapedSlash ==
  pc = "routed" =>
    \A i \in CapturedSlashes(req.url) :
      LET h == handleRequest([req EXCEPT !.url = WithEscape(req.url, i)], NoResponse,
                             env.services, env.fmt, env.mock, env.ctor)
      IN /\ h.handled = handled
         /\ h.call = call
         /\ h.res = res
         /\ h.services = services

\* GET /time/Etc/UTC reached the handler with timezone = Etc/UTC.
C8_Witness ==
  /\ pc = "routed"
  /\ req.url = <<"/", "time", "/", "Etc", "/", "UTC">>
  /\ CapturedSlashes(req.url) = {5}
  /\ handled = "true"
  /\ call.handler = "getTimeByTimezone"
  /\ call.params[<<"timezone">>] = <<"Etc", "/", "UTC">>

\* No registered route of the request's method matches the request's path.
NoRouteMatches ==
  \A i \in 1..Len(RouteList(controllers, registry)) :
    LET route == RouteList(controllers, registry)[i]
    IN route.method = req.method => matchRoute(req.url, route.path).kind # "match"

\* C9: handleRequest reports the request as not matched exactly when no
\* registered route of its method matches its path, and the request is then
\* answered 404 with error 'Not found' and example '/time/Etc/UTC', never 500.
C9_NotMatchedIs404 ==
  pc = "done" =>
    /\ (handled = "false") <=> NoRouteMatches
    /\ NoRouteMatches =>
         /\ res.statusCode = 404
         /\ res.statusCode # 500
         /\ res.body.error = "Not found"
         /\ res.body.example = <<"/", "time", "/", "Etc", "/", "UTC">>

\* C10: when the matched handler or its parameter resolution fails, the
\* answer is 400 'Invalid timezone' with the captured timezone value when
\* the failure is an Error whose message holds 'timezone' or 'Invalid'
\* (case-sensitive), and 500 'Internal server error' otherwise, failures
\* that are not Errors included; handleRequest reports the request handled.
C10_FailureClassified ==
  (pc = "done" /\ call.result.kind = "throw") =>
    LET message == call.result.message
        validation ==
          /\ call.result.isError
          /\ \E i \in 1..Len(message) : message[i] \in {"timezone", "Invalid"}
    IN /\ handled = "true"
       /\ res.ended = 1
       /\ IF validation
            THEN /\ res.statusCode = 400
                 /\ res.body.error = "Invalid timezone"
                 /\ <<"timezone">> \in DOMAIN call.params
                      => /\ res.body.hasRequested
                         /\ res.body.requested_timezone = call.params[<<"timezone">>]
            ELSE /\ res.statusCode = 500
                 /\ res.body.error = "Internal server error"
                 /\ ~res.body.hasRequested

\* A mock threw a value that is no Error carrying the text 'Invalid input',
\* and the answer was 500.
C10_Witness ==
  /\ pc = "done"
  /\ call.result.kind = "throw"
  /\ ~call.result.isError
  /\ call.result.message = <<"Invalid", " ", "input">>
  /\ res.statusCode = 500

\* C11: when the engine fails unexpectedly on an identifier that passed
\* validation, GET /time/{id} is answered 500 'Internal server error', not
\* with a 400 validation error.
C11_EngineFailureIs500 ==
  ( /\ pc = "done"
    /\ IsTimeRequestFor(RequestedId)
    /\ isValidTimezone(RequestedId)
    /\ env.fmt = "throws"
    /\ RealService )
  => /\ res.statusCode = 500
     /\ res.body.error = "Internal server error"

\* C19: handleRequest sets Access-Control-Allow-Origin: *,
\* Access-Control-Allow-Methods: GET, POST, PUT, DELETE,
\* Access-Control-Allow-Headers: Content-Type and Content-Type:
\* application/json before it looks for a route, so the response carries
\* them once handleRequest has settled, matched or not, and still does when
\* the 200, 400, 500 or 404 answer has been written.
C19_HeadersAlwaysSet ==
  pc \in {"routed", "done"} =>
    /\ <<"Access-Control-Allow-Origin", "*">> \in res.headers
    /\ <<"Access-Control-Allow-Methods", "GET, POST, PUT, DELETE">> \in res.headers
    /\ <<"Access-Control-Allow-Headers", "Content-Type">> \in res.headers
    /\ <<"Content-Type", "application/json">> \in res.headers
    /\ \A h1, h2 \in res.headers : h1[1] = h2[1] => h1 = h2

\* No route matched and the listener has written the 404.
C19_Witness ==
  /\ pc = "done"
  /\ handled = "false"
  /\ res.statusCode = 404
  /\ res.ended = 1
  /\ <<"Access-Control-Allow-Origin", "*">> \in res.headers

-----------------------------------------------------------------------------
(* ServiceRegistry: calls on the process-wide registry *)

MaxObjects == 3

\* The objects a caller hands to registerService for id.
Registrable(id) == {MockService(id), SpyService(id)}

RegistryInit ==
  /\ SocketsIdle
  /\ RouterIdle
  /\ registry = AppRegistry
  /\ controllers = AppControllers
  /\ services = << >>
  /\ constructed = 0
  /\ RegistryIdle
  /\ RegistrationIdle
  /\ cleaned = NoCleanup

\* serviceRegistry.registerService(id, instance)
RegisterService(id, instance) ==
  /\ services' = registerService(services, id, instance)
  /\ regCall' = RegCall("register", id, instance, FALSE, services, constructed, given[id])
  /\ given' = [given EXCEPT ![id] = NoInstance]
  /\ UNCHANGED <<constructed, dropped, svars, rvars, dvars>>

\* serviceRegistry.getService(id)
GetService(id) ==
  /\ regCall' = RegCall("get", id, getService(services, id), FALSE, services,
                        constructed, given[id])
  /\ UNCHANGED <<services, constructed, given, dropped, svars, rvars, dvars>>

\* serviceRegistry.getOrCreateService(id)
GetOrCreateService(id, ctor) ==
  /\ id \in DOMAIN services \/ constructed < MaxObjects
  /\ LET got == getOrCreateService(services, id, ctor)
     IN /\ services' = got.services
        /\ constructed' = constructed + Constructions(services, got.services)
        /\ regCall' = RegCall("getOrCreate", id, got.instance, got.threw, services,
                              constructed, given[id])
        /\ given' = IF got.threw THEN given ELSE [given EXCEPT ![id] = got.instance]
  /\ UNCHANGED <<dropped, svars, rvars, dvars>>

\* serviceRegistry.clear()
Clear ==
  /\ services' = clear(services)
  /\ regCall' = RegCall("clear", NoService, NoInstance, FALSE, services, constructed,
                        NoInstance)
  /\ given' = [id \in ServiceIds |-> NoInstance]
  /\ dropped' = services
  /\ UNCHANGED <<constructed, svars, rvars, dvars>>

\* A lookup in the routing registry as regOp keeps it: found is the position
\* of the entry it returned, 0 for undefined.
LookupOp(op, target, found) == [op |-> op, target |-> target, found |-> found]

\* Classes the lookups are made with: one with an entry in the controllers
\* map, one with no entry in either map.
LookupTargets == {"TimezoneController", "UnknownController"}

\* registry.getControllerMetadata(target)
GetControllerMetadata(target) ==
  /\ regOp' = LookupOp("getControllerMetadata", target,
                       getControllerMetadata(registry, target))
  /\ UNCHANGED <<services, constructed, regCall, given, dropped, svars, rvars,
                 emitsMetadata, paramsOnly, routeCalls, calls, cleaned>>

\* registry.getWebSocketMetadata(target)
GetWebSocketMetadata(target) ==
  /\ regOp' = LookupOp("getWebSocketMetadata", target,
                       getWebSocketMetadata(webSockets, target))
  /\ UNCHANGED <<services, constructed, regCall, given, dropped, svars, rvars,
                 emitsMetadata, paramsOnly, routeCalls, calls, cleaned>>

RegistryNext ==
  \/ \E id \in ServiceIds : \E instance \in Registrable(id) : RegisterService(id, instance)
  \/ \E id \in ServiceIds : GetService(id)
  \/ \E id \in ServiceIds : \E ctor \in CtorOutcomesFor(services, id) :
       GetOrCreateService(id, ctor)
  \/ Clear
  \/ \E target \in LookupTargets : GetControllerMetadata(target)
  \/ \E target \in LookupTargets : GetWebSocketMetadata(target)

RegistrySpec == RegistryInit /\ [][RegistryNext]_vars

-----------------------------------------------------------------------------
(* Properties of the ServiceRegistry *)

\* The entries of `before` are all still in the registry, unchanged.
Kept(before) == \A t \in DOMAIN before : t \in DOMAIN services /\ services[t] = before[t]

\* C12: getOrCreateService(id) returns the cached instance when there is one
\* and otherwise constructs exactly one new instance, caches it and returns
\* it; so a call returns the very instance the call before it returned when
\* no clear() or registerService(id, ...) came between, and the instances
\* given out for different identifiers differ.
C12_GetOrCreate ==
  /\ (regCall.op = "getOrCreate" /\ ~regCall.threw) =>
       /\ IF regCall.id \in DOMAIN regCall.before
            THEN /\ regCall.result = regCall.before[regCall.id]
                 /\ services = regCall.before
                 /\ constructed = regCall.built
            ELSE /\ constructed = regCall.built + 1
                 /\ ~regCall.result.mock
                 /\ \A t \in DOMAIN regCall.before : regCall.before[t] # regCall.result
                 /\ \A t \in DOMAIN dropped : dropped[t] # regCall.result
                 /\ DOMAIN services = DOMAIN regCall.before \cup {regCall.id}
                 /\ Kept(regCall.before)
       /\ services[regCall.id] = regCall.result
       /\ regCall.earlier # NoInstance => regCall.result = regCall.earlier
  /\ \A id1, id2 \in ServiceIds :
       (id1 # id2 /\ given[id1] # NoInstance /\ given[id2] # NoInstance)
         => given[id1] # given[id2]

\* getOrCreateService gave out, a second time, the instance it had
\* constructed, the other identifier holding an instance of its own.
C12_Witness ==
  /\ regCall.op = "getOrCreate"
  /\ regCall.earlier # NoInstance
  /\ ~regCall.result.mock
  /\ regCall.result = regCall.earlier
  /\ \A id \in ServiceIds : given[id] # NoInstance /\ ~given[id].mock

\* C13: when the constructor throws, getOrCreateService(id) fails to its
\* caller and leaves the cache as it was: no entry for id, the entries of
\* the other identifiers untouched.
C13_FailedConstruction ==
  (regCall.op = "getOrCreate" /\ regCall.threw) =>
    /\ regCall.result = NoInstance
    /\ services = regCall.before
    /\ regCall.id \notin DOMAIN services
    /\ constructed = regCall.built

\* A construction failed while another identifier had its instance cached.
C13_Witness ==
  /\ regCall.op = "getOrCreate"
  /\ regCall.threw
  /\ \E t \in DOMAIN services : t # regCall.id /\ ~services[t].mock

\* C14: registerService(id, instance) puts instance in place of whatever
\* was cached for id, and until the next registerService(id, ...) or
\* clear() every getService(id) and getOrCreateService(id) returns it and
\* constructs nothing.
C14_RegisteredWins ==
  /\ regCall.op = "register" =>
       /\ services[regCall.id] = regCall.result
       /\ DOMAIN services = DOMAIN regCall.before \cup {regCall.id}
       /\ \A t \in DOMAIN regCall.before \ {regCall.id} : services[t] = regCall.before[t]
       /\ constructed = regCall.built
  /\ regCall.op \in {"get", "getOrCreate"} =>
       /\ Kept(regCall.before)
       /\ ( regCall.id \in DOMAIN regCall.before /\ regCall.before[regCall.id].mock )
            => /\ regCall.result = regCall.before[regCall.id]
               /\ ~regCall.threw
               /\ services = regCall.before
               /\ constructed = regCall.built

\* An instance was registered over one the registry had constructed.
C14_Witness ==
  /\ regCall.op = "register"
  /\ regCall.id \in DOMAIN regCall.before
  /\ ~regCall.before[regCall.id].mock
  /\ services[regCall.id] = regCall.result

\* C15: after clear() the lookup of every identifier reports absent, and
\* the next getOrCreateService(id) constructs a new instance, not the one
\* cached before the clear.
C15_ClearDropsAll ==
  /\ regCall.op = "clear" =>
       \A id \in ServiceIds : id \notin DOMAIN services
  /\ ( /\ regCall.op = "getOrCreate"
       /\ ~regCall.threw
       /\ regCall.id \notin DOMAIN regCall.before
       /\ regCall.id \in DOMAIN dropped )
     => /\ regCall.result # dropped[regCall.id]
        /\ ~regCall.result.mock
        /\ constructed = regCall.built + 1

\* After a clear that dropped a constructed instance of id,
\* getOrCreateService(id) constructed another.
C15_Witness ==
  /\ regCall.op = "getOrCreate"
  /\ ~regCall.threw
  /\ regCall.id \notin DOMAIN regCall.before
  /\ regCall.id \in DOMAIN dropped
  /\ ~dropped[regCall.id].mock
  /\ regCall.result.serial > dropped[regCall.id].serial

-----------------------------------------------------------------------------
(* RoutingRegistry: the registration calls the decorators and constructors make *)

\* method: '' and path: '' of a route entry a parameter registration creates.
NoMethod == ""
NoPath == << >>

\* A design:paramtypes entry that is undefined.
NoType == ""

\* const builtInTypes = [String, Number, Boolean, Date, Array, Object, RegExp]
BuiltInTypes == {"String", "Number", "Boolean", "Date", "Array", "Object", "RegExp"}

\* RoutingRegistry.isServiceType, over class names: every other type of the
\* model is a class with a prototype.
isServiceType(type) == type # NoType /\ type \notin BuiltInTypes

\* What the compiler emits as design:paramtypes for a handler of a
\* controller class: getTimeByTimezone(timezone: string, timezoneService:
\* TimezoneService) of TimezoneController; nothing for methods without
\* parameters or methods the class does not have.
DesignParamTypes(target, handler) ==
  IF target = "TimezoneController" /\ handler = "getTimeByTimezone"
    THEN <<"String", "TimezoneService">>
    ELSE << >>

\* The same for the constructor of a WebSocket controller class:
\* constructor(timezone: string, timezoneService: TimezoneService).
DesignCtorParamTypes(target) ==
  IF target = "TimezoneWebSocket" THEN <<"String", "TimezoneService">> ELSE << >>

\* Reflect.getMetadata('design:paramtypes', ...) || []
getMetadata(emits, paramTypes) == IF emits THEN paramTypes ELSE << >>

\* parameters.find(p => p.index === paramIndex): its position, 0 when absent
findParam(parameters, paramIndex) ==
  LET hits == { i \in 1..Len(parameters) : parameters[i].index = paramIndex }
  IN IF hits = {} THEN 0 ELSE CHOOSE i \in hits : \A j \in hits : i <= j

\* metadata.routes.find(route => route.handler === handler): its position, 0 when absent
findByHandler(routes, handler) ==
  LET hits == { i \in 1..Len(routes) : routes[i].handler = handler }
  IN IF hits = {} THEN 0 ELSE CHOOSE i \in hits : \A j \in hits : i <= j

\* { method, path, handler, paramNames: [], parameters: [] }
NewRoute(method, path, handler) ==
  [method |-> method, path |-> path, handler |-> handler, paramNames |-> << >>,
   parameters |-> << >>]

\* if (!this.controllers.has(target)) this.controllers.set(target, { routes: [] })
withController(reg, target) ==
  IF getControllerMetadata(reg, target) = 0
    THEN Append(reg, [controllerClass |-> target, routes |-> << >>])
    ELSE reg

\* The routes with a blank entry pushed for handler when it has none.
withRoute(routes, handler) ==
  IF findByHandler(routes, handler) = 0
    THEN Append(routes, NewRoute(NoMethod, NoPath, handler))
    ELSE routes

\* route.paramNames[paramIndex] = paramName; a hole reads as undefined.
SetName(paramNames, paramIndex, paramName) ==
  [i \in 1..(IF paramIndex + 1 > Len(paramNames) THEN paramIndex + 1 ELSE Len(paramNames)) |->
     IF i = paramIndex + 1 THEN paramName
     ELSE IF i <= Len(paramNames) THEN paramNames[i] ELSE NoName]

\* An upsert that pushes without looking for the index.
pushParam(parameters, paramIndex, paramName) ==
  Append(parameters, [index |-> paramIndex, type |-> "param", name |-> paramName,
                      serviceType |-> NoService])

\* The existingParam branch of registerParam and registerWebSocketParam.
upsertParam(parameters, paramIndex, paramName) ==
  LET pos == findParam(parameters, paramIndex)
  IN IF pos # 0
       THEN [parameters EXCEPT ![pos].type = "param", ![pos].name = paramName]
       ELSE Append(parameters, [index |-> paramIndex, type |-> "param",
                                name |-> paramName, serviceType |-> NoService])

\* An upsert that leaves the kind of the spec it finds.
upsertServiceType(parameters, paramIndex, serviceType) ==
  LET pos == findParam(parameters, paramIndex)
  IN IF pos # 0
       THEN [parameters EXCEPT ![pos].serviceType = serviceType]
       ELSE Append(parameters, [index |-> paramIndex, type |-> "service",
                                name |-> NoName, serviceType |-> serviceType])

\* The existingParam branch of registerServiceParameter.
upsertService(parameters, paramIndex, serviceType) ==
  LET pos == findParam(parameters, paramIndex)
  IN IF pos # 0
       THEN [parameters EXCEPT ![pos].type = "service", ![pos].serviceType = serviceType]
       ELSE Append(parameters, [index |-> paramIndex, type |-> "service",
                                name |-> NoName, serviceType |-> serviceType])

\* RoutingRegistry.autoDetectServiceParameters: paramTypes.forEach from
\* position i (index i - 1) on.
RECURSIVE autoDetectFrom(_, _, _)
autoDetectFrom(paramTypes, i, parameters) ==
  IF i > Len(paramTypes) THEN parameters
  ELSE autoDetectFrom(paramTypes, i + 1,
         IF isServiceType(paramTypes[i]) /\ findParam(parameters, i - 1) = 0
           THEN Append(parameters, [index |-> i - 1, type |-> "service", name |-> NoName,
                                    serviceType |-> paramTypes[i]])
           ELSE parameters)

autoDetectServiceParameters(paramTypes, route) ==
  [route EXCEPT !.parameters = autoDetectFrom(paramTypes, 1, @)]

\* A registerRoute that puts a fresh entry in the place of the one it finds.
registerRouteAnew(reg, paramTypes, target, method, path, handler) ==
  LET reg1 == withController(reg, target)
      c == getControllerMetadata(reg1, target)
      routes == reg1[c].routes
      r == findByHandler(routes, handler)
      route == autoDetectServiceParameters(paramTypes, NewRoute(method, path, handler))
  IN [reg1 EXCEPT ![c].routes = IF r # 0 THEN [routes EXCEPT ![r] = route]
                                         ELSE Append(routes, route)]

\* RoutingRegistry.registerRoute; paramTypes is what Reflect.getMetadata gives
\* for the handler.
registerRoute(reg, paramTypes, target, method, path, handler) ==
  LET reg1 == withController(reg, target)
      c == getControllerMetadata(reg1, target)
      routes == reg1[c].routes
      r == findByHandler(routes, handler)
  IN [reg1 EXCEPT ![c].routes =
        IF r # 0
          THEN [routes EXCEPT ![r].method = method, ![r].path = path]
          ELSE Append(routes, autoDetectServiceParameters(paramTypes,
                                NewRoute(method, path, handler)))]

\* RoutingRegistry.registerParam
registerParam(reg, target, handler, paramName, paramIndex) ==
  LET reg1 == withController(reg, target)
      c == getControllerMetadata(reg1, target)
      routes == withRoute(reg1[c].routes, handler)
      r == findByHandler(routes, handler)
  IN [reg1 EXCEPT ![c].routes =
        [routes EXCEPT ![r].paramNames = SetName(@, paramIndex, paramName),
                       ![r].parameters = upsertParam(@, paramIndex, paramName)]]

\* RoutingRegistry.registerServiceParameter
registerServiceParameter(reg, target, handler, paramIndex, serviceType) ==
  LET reg1 == withController(reg, target)
      c == getControllerMetadata(reg1, target)
      routes == withRoute(reg1[c].routes, handler)
      r == findByHandler(routes, handler)
  IN [reg1 EXCEPT ![c].routes =
        [routes EXCEPT ![r].parameters = upsertService(@, paramIndex, serviceType)]]

\* RoutingRegistry.autoDetectWebSocketParameters: paramTypes.forEach from
\* position i (index i - 1) on.
RECURSIVE autoDetectWebSocketFrom(_, _, _)
autoDetectWebSocketFrom(paramTypes, i, parameters) ==
  IF i > Len(paramTypes) THEN parameters
  ELSE autoDetectWebSocketFrom(paramTypes, i + 1,
         IF isServiceType(paramTypes[i])
           THEN Append(parameters, [index |-> i - 1, type |-> "service", name |-> NoName,
                                    serviceType |-> paramTypes[i]])
         ELSE IF paramTypes[i] = "String"
           THEN Append(parameters, [index |-> i - 1, type |-> "param", name |-> NoName,
                                    serviceType |-> NoService])
         ELSE parameters)

autoDetectWebSocketParameters(paramTypes, metadata) ==
  [metadata EXCEPT !.parameters = autoDetectWebSocketFrom(paramTypes, 1, @)]

\* RoutingRegistry.registerWebSocketRoute; this.webSockets.set keeps the
\* place of a key the map already has.
registerWebSocketRoute(ws, paramTypes, target, path) ==
  LET webSocketMetadata ==
        autoDetectWebSocketParameters(paramTypes,
          [controllerClass |-> target, path |-> path, parameters |-> << >>])
      w == getWebSocketMetadata(ws, target)
  IN IF w # 0 THEN [ws EXCEPT ![w] = webSocketMetadata]
              ELSE Append(ws, webSocketMetadata)

\* RoutingRegistry.registerWebSocketParam
registerWebSocketParam(ws, target, paramName, paramIndex) ==
  LET w == getWebSocketMetadata(ws, target)
  IN IF w # 0
       THEN [ws EXCEPT ![w].parameters = upsertParam(@, paramIndex, paramName)]
       ELSE ws

(* Bounds and inputs of the registration calls *)
MaxCalls == 3

\* Controller classes and handler names the calls are made for.
RouteTargets == {"TimezoneController", "HealthcheckController"}
RouteHandlers == {"getTimeByTimezone", "healthcheck"}
\* @GET('/time/:timezone'), and a second method and path to re-register with.
RouteDeclarations == { <<"GET", TimePath>>, <<"POST", HealthPath>> }
ParamNames == { <<"timezone">> }
ParamIndexes == {0, 1}
InjectedTypes == {"TimezoneService"}
WebSocketTargets == {"TimezoneWebSocket"}
WebSocketPaths == {LivePath, TimePath}

\* A registerRoute call as routeCalls keeps it; first: the controllers map
\* had no entry for (target, handler) when the call was made.
RouteCall(target, method, path, handler, first) ==
  [target |-> target, method |-> method, path |-> path, handler |-> handler,
   first |-> first]

\* Whether reg holds an entry for (target, handler).
HasRoute(reg, target, handler) ==
  /\ getControllerMetadata(reg, target) # 0
  /\ findByHandler(reg[getControllerMetadata(reg, target)].routes, handler) # 0

\* The entry of (target, handler) in reg.
RouteOf(reg, target, handler) ==
  LET routes == reg[getControllerMetadata(reg, target)].routes
  IN routes[findByHandler(routes, handler)]

RegistrationInit ==
  /\ SocketsIdle
  /\ RouterIdle
  /\ registry = << >>
  /\ controllers = << >>
  /\ services = << >>
  /\ constructed = 0
  /\ RegistryIdle
  /\ emitsMetadata \in BOOLEAN
  /\ regOp = NoRegOp
  /\ paramsOnly = << >>
  /\ routeCalls = << >>
  /\ calls = 0
  /\ cleaned = NoCleanup

\* What a registration call leaves alone besides the two maps and its records.
RegistrationFrame ==
  UNCHANGED <<services, constructed, sockState, rooms, webSocketInstances, ctrl, client,
              closed, lastEmit, lastOp, tickUpdates, tickErrors, subAtStart, controllers,
              req, res, handled, call, env, pc, regCall, given, dropped, emitsMetadata,
              cleaned>>

\* registry.registerRoute(target, method, path, handler): @GET(path) on a method
RegisterRoute(target, method, path, handler) ==
  /\ calls < MaxCalls
  /\ registry' = registerRoute(registry,
                   getMetadata(emitsMetadata, DesignParamTypes(target, handler)),
                   target, method, path, handler)
  /\ regOp' = RegOp("registerRoute", target, handler, method, path, registry)
  /\ routeCalls' = Append(routeCalls,
                     RouteCall(target, method, path, handler,
                               ~HasRoute(registry, target, handler)))
  /\ calls' = calls + 1
  /\ UNCHANGED <<webSockets, paramsOnly>>
  /\ RegistrationFrame

\* registry.registerParam(target, handler, paramName, paramIndex): @PARAM(name)
\* on a method parameter
RegisterParam(target, handler, paramName, paramIndex) ==
  /\ calls < MaxCalls
  /\ registry' = registerParam(registry, target, handler, paramName, paramIndex)
  /\ paramsOnly' = registerParam(paramsOnly, target, handler, paramName, paramIndex)
  /\ regOp' = RegOp("registerParam", target, handler, NoMethod, NoPath, registry)
  /\ calls' = calls + 1
  /\ UNCHANGED <<webSockets, routeCalls>>
  /\ RegistrationFrame

\* registry.registerServiceParameter(target, handler, paramIndex, serviceType):
\* the constructor of TimezoneController
RegisterServiceParameter(target, handler, paramIndex, serviceType) ==
  /\ calls < MaxCalls
  /\ registry' = registerServiceParameter(registry, target, handler, paramIndex, serviceType)
  /\ paramsOnly' = registerServiceParameter(paramsOnly, target, handler, paramIndex,
                                            serviceType)
  /\ regOp' = RegOp("registerServiceParameter", target, handler, NoMethod, NoPath, registry)
  /\ calls' = calls + 1
  /\ UNCHANGED <<webSockets, routeCalls>>
  /\ RegistrationFrame

\* registry.registerWebSocketRoute(target, path): @WebSocket(path) on a class
RegisterWebSocketRoute(target, path) ==
  /\ calls < MaxCalls
  /\ webSockets' = registerWebSocketRoute(webSockets,
                     getMetadata(emitsMetadata, DesignCtorParamTypes(target)), target, path)
  /\ regOp' = RegOp("registerWebSocketRoute", target, "", NoMethod, path, registry)
  /\ calls' = calls + 1
  /\ UNCHANGED <<registry, paramsOnly, routeCalls>>
  /\ RegistrationFrame

\* registry.registerWebSocketParam(target, paramName, paramIndex): @PARAM(name)
\* on a constructor parameter
RegisterWebSocketParam(target, paramName, paramIndex) ==
  /\ calls < MaxCalls
  /\ webSockets' = registerWebSocketParam(webSockets, target, paramName, paramIndex)
  /\ regOp' = RegOp("registerWebSocketParam", target, "", NoMethod, NoPath, registry)
  /\ calls' = calls + 1
  /\ UNCHANGED <<registry, paramsOnly, routeCalls>>
  /\ RegistrationFrame

RegistrationNext ==
  \/ \E target \in RouteTargets, handler \in RouteHandlers, d \in RouteDeclarations :
       RegisterRoute(target, d[1], d[2], handler)
  \/ \E target \in RouteTargets, handler \in RouteHandlers, paramName \in ParamNames,
        paramIndex \in ParamIndexes :
       RegisterParam(target, handler, paramName, paramIndex)
  \/ \E target \in RouteTargets, handler \in RouteHandlers, paramIndex \in ParamIndexes,
        serviceType \in InjectedTypes :
       RegisterServiceParameter(target, handler, paramIndex, serviceType)
  \/ \E target \in WebSocketTargets, path \in WebSocketPaths :
       RegisterWebSocketRoute(target, path)
  \/ \E target \in WebSocketTargets, paramName \in ParamNames, paramIndex \in ParamIndexes :
       RegisterWebSocketParam(target, paramName, paramIndex)

RegistrationSpec == RegistrationInit /\ [][RegistrationNext]_vars

-----------------------------------------------------------------------------
(* Properties of the RoutingRegistry *)

\* Every route entry but the one of (target, handler) is in the controllers
\* map as it was in `before`, and no entry was added or removed.
OthersKept(before, target, handler) ==
  /\ Len(registry) = Len(before)
  /\ \A c \in 1..Len(before) :
       /\ registry[c].controllerClass = before[c].controllerClass
       /\ Len(registry[c].routes) = Len(before[c].routes)
       /\ \A r \in 1..Len(before[c].routes) :
            ( before[c].controllerClass # target \/ before[c].routes[r].handler # handler )
              => registry[c].routes[r] = before[c].routes[r]

\* C16: whatever registerRoute, registerParam and registerServiceParameter
\* calls were made, the registry holds at most one route entry per
\* (controller class, handler name), and a registerRoute for a handler that
\* has an entry overwrites its method and path only: its parameter specs,
\* and every other entry, stay as they were.
C16_OneEntryPerHandler ==
  /\ \A c1, c2 \in 1..Len(registry) :
       registry[c1].controllerClass = registry[c2].controllerClass => c1 = c2
  /\ \A c \in 1..Len(registry) : \A r1, r2 \in 1..Len(registry[c].routes) :
       registry[c].routes[r1].handler = registry[c].routes[r2].handler => r1 = r2
  /\ ( regOp.op = "registerRoute" /\ HasRoute(regOp.before, regOp.target, regOp.handler) )
       => /\ HasRoute(registry, regOp.target, regOp.handler)
          /\ RouteOf(registry, regOp.target, regOp.handler)
               = [RouteOf(regOp.before, regOp.target, regOp.handler)
                    EXCEPT !.method = regOp.method, !.path = regOp.path]
          /\ OthersKept(regOp.before, regOp.target, regOp.handler)

\* A route that had parameter specs, a method and a path was registered
\* again with another method and path.
C16_Witness ==
  /\ regOp.op = "registerRoute"
  /\ HasRoute(regOp.before, regOp.target, regOp.handler)
  /\ LET was == RouteOf(regOp.before, regOp.target, regOp.handler)
     IN /\ was.parameters # << >>
        /\ was.method # NoMethod
        /\ was.method # regOp.method
        /\ was.path # regOp.path

\* What a parameter spec says: its index and kind, and the field its kind owns.
SpecOf(p) ==
  IF p.type = "param" THEN [index |-> p.index, type |-> p.type, name |-> p.name]
                      ELSE [index |-> p.index, type |-> p.type, serviceType |-> p.serviceType]

\* A route entry as the claim compares it: method, path and parameter specs.
EntryOf(reg, target, handler) ==
  LET route == RouteOf(reg, target, handler)
  IN [method |-> route.method, path |-> route.path,
      specs |-> { SpecOf(route.parameters[i]) : i \in 1..Len(route.parameters) }]

\* The controllers map after the registerRoute calls rcs, made in order on reg.
RECURSIVE ThenRoutes(_, _)
ThenRoutes(reg, rcs) ==
  IF rcs = << >> THEN reg
  ELSE ThenRoutes(registerRoute(reg,
                    getMetadata(emitsMetadata,
                                DesignParamTypes(Head(rcs).target, Head(rcs).handler)),
                    Head(rcs).target, Head(rcs).method, Head(rcs).path, Head(rcs).handler),
                  Tail(rcs))

\* The registerRoute calls made for (target, handler).
RouteCallsFor(target, handler) ==
  SelectSeq(routeCalls, LAMBDA rc : rc.target = target /\ rc.handler = handler)

\* C17: for a handler whose registerRoute call was made before its
\* registerParam and registerServiceParameter calls, the route entry is the
\* one the same calls give with registerRoute made after them: same method,
\* path and parameter specs.
C17_OrderIndependent ==
  \A target \in RouteTargets, handler \in RouteHandlers :
    ( /\ Len(RouteCallsFor(target, handler)) = 1
      /\ RouteCallsFor(target, handler)[1].first )
      => EntryOf(registry, target, handler)
           = EntryOf(ThenRoutes(paramsOnly, routeCalls), target, handler)

\* No two parameter specs of the list have one index.
DistinctIndexes(parameters) ==
  \A i, j \in 1..Len(parameters) : parameters[i].index = parameters[j].index => i = j

\* C18: in every registry state the registration calls reach, repeated ones
\* included, each route entry and each WebSocket route holds at most one
\* parameter spec per index.
C18_OneSpecPerIndex ==
  /\ \A c \in 1..Len(registry) : \A r \in 1..Len(registry[c].routes) :
       DistinctIndexes(registry[c].routes[r].parameters)
  /\ \A w \in 1..Len(webSockets) : DistinctIndexes(webSockets[w].parameters)

\* TimezoneController was constructed a second time: its
\* registerServiceParameter call found the spec of index 1 in place, next to
\* the @PARAM spec of index 0.
C18_Witness ==
  /\ regOp.op = "registerServiceParameter"
  /\ HasRoute(regOp.before, regOp.target, regOp.handler)
  /\ LET was == RouteOf(regOp.before, regOp.target, regOp.handler).parameters
         now == RouteOf(registry, regOp.target, regOp.handler).parameters
     IN /\ Len(was) = 2
        /\ \E i \in 1..2 : was[i].index = 1 /\ was[i].type = "service"
        /\ \E i \in 1..2 : was[i].index = 0 /\ was[i].type = "param"
        /\ now = was

-----------------------------------------------------------------------------
(* SocketServer.cleanup when a controller's cleanup hook may throw *)

\* How the cleanup() of a cached instance ends.  TimezoneWebSocket's own
\* returns; the server caches instances of whatever class is registered.
HookOutcomes == {"returns", "throws"}

\* The cached controller instances in the order the Map iterates them: the
\* order they were created in.
RECURSIVE InOrder(_)
InOrder(ids) ==
  IF ids = {} THEN << >>
  ELSE LET id == CHOOSE x \in ids : \A y \in ids : x <= y
       IN <<id>> \o InOrder(ids \ {id})

CachedInstances == { webSocketInstances[k] : k \in DOMAIN webSocketInstances }

\* A loop over the instances without the try/catch: the first hook that
\* throws ends it and the exception leaves cleanup().
RECURSIVE runHooksUnguarded(_, _)
runHooksUnguarded(ids, outcome) ==
  IF ids = << >> THEN [invoked |-> {}, failed |-> {}, completed |-> TRUE]
  ELSE IF outcome[Head(ids)] = "throws"
    THEN [invoked |-> {Head(ids)}, failed |-> {Head(ids)}, completed |-> FALSE]
    ELSE LET rest == runHooksUnguarded(Tail(ids), outcome)
         IN [rest EXCEPT !.invoked = @ \cup {Head(ids)}]

\* The loop of SocketServer.cleanup over the instances ids: the hooks it
\* invoked, the ones that threw, and whether it ran to its end.
RECURSIVE runHooks(_, _)
runHooks(ids, outcome) ==
  IF ids = << >> THEN [invoked |-> {}, failed |-> {}, completed |-> TRUE]
  ELSE LET rest == runHooks(Tail(ids), outcome)
       IN [rest EXCEPT !.invoked = @ \cup {Head(ids)},
                       !.failed = @ \cup (IF outcome[Head(ids)] = "throws"
                                            THEN {Head(ids)} ELSE {})]

\* The records of the controllers ids.
ClientsOf(ids) == { c \in 1..Len(client) : client[c].controller \in ids }

\* SocketServer.cleanup.  A hook that returns has cleared its clients'
\* intervals and disconnected their sockets; when the loop is through, the
\* cache is cleared and io.close() disconnects every socket still connected,
\* which runs the disconnect listeners of its records.
CleanupWith(outcome) ==
  /\ ~closed
  /\ LET run == runHooks(InOrder(CachedInstances), outcome)
         gone == IF run.completed THEN Sockets
                 ELSE { client[c].socket : c \in ClientsOf(run.invoked \ run.failed) }
         cs == { c \in 1..Len(client) : client[c].socket \in gone }
     IN /\ cleaned' = [cached |-> CachedInstances, invoked |-> run.invoked,
                       failed |-> run.failed]
        /\ closed' = run.completed
        /\ webSocketInstances' = IF run.completed THEN << >> ELSE webSocketInstances
        /\ sockState' = [s \in Sockets |->
                           IF s \in gone /\ sockState[s] = "connected"
                             THEN "disconnected" ELSE sockState[s]]
        /\ client' = ClearIntervals(cs)
        /\ ctrl' = DeleteClients(ctrl, cs)
        /\ rooms' = { r \in rooms : r[1] \notin gone }
  /\ lastEmit' = << >>
  /\ lastOp' = [op |-> "cleanup", sock |-> 0, tz |-> << >>]
  /\ UNCHANGED <<rvars, regCall, given, dropped, emitsMetadata, regOp, paramsOnly,
                 routeCalls, calls>>
  /\ UNCHANGED <<webSockets, services, constructed, tickUpdates, tickErrors, subAtStart>>

CleanupNext ==
  \/ \E s \in Sockets : Connect(s)
  \/ \E s \in Sockets, tz \in Topics :
       \E fmt \in OutcomesOf(tz), ctor \in CtorOutcomesIn(services) :
         handleTimezoneSubscription(s, tz, fmt, ctor)
  \/ \E s \in Sockets : Disconnect(s)
  \/ \E outcome \in [CachedInstances -> HookOutcomes] : CleanupWith(outcome)

CleanupSpec == Init /\ [][CleanupNext]_vars

\* C20: cleanup invokes the cleanup hook of every cached controller
\* instance, the ones after a hook that threw included, and afterwards the
\* instance cache is empty and the transport server is closed.
C20_CleanupRunsEveryHook ==
  lastOp.op = "cleanup" =>
    /\ cleaned.invoked = cleaned.cached
    /\ webSocketInstances = << >>
    /\ closed

\* Two instances were cached and the hook of the first one threw.
C20_Witness ==
  /\ lastOp.op = "cleanup"
  /\ Cardinality(cleaned.cached) >= 2
  /\ \E id \in cleaned.failed : \E later \in cleaned.invoked \ cleaned.failed : id < later
  /\ closed

-----------------------------------------------------------------------------
(* TimezoneWebSocket on its own: a controller constructed with a service that
   may be a mock, as the controller's unit tests construct it *)

\* error: 'Failed to get time update'
FailedUpdateMessage ==
  <<"Failed", " ", "to", " ", "get", " ", "time", " ", "update">>

\* this.timezoneService.getValidatedTimeInTimezone(client.timezone): what
\* the call of the service ends in; a result that is undefined, or a service
\* that is, makes the caller's next property read throw.
ServiceCall(timezoneService, timezone, fmt, mock) ==
  IF timezoneService.kind # "service" THEN [kind |-> "throw", success |-> FALSE,
                                             error |-> TypeErrorMessage]
  ELSE IF timezoneService.svc.mock
    THEN [kind |-> mock.kind, success |-> mock.success, error |-> mock.message]
    ELSE LET result == getValidatedTimeInTimezone(timezone, fmt)
         IN [kind |-> "result", success |-> result.success,
             error |-> IF result.success THEN << >> ELSE result.error]

\* A sendTimeUpdate without the try/catch: what the service throws leaves
\* the method and nothing is emitted.
sendTimeUpdateUncaught(c, timezoneService, fmt, mock) ==
  LET result == ServiceCall(timezoneService, c.timezone, fmt, mock)
  IN IF result.kind # "result" THEN << >>
     ELSE IF result.success
       THEN << [to |-> c.socket, event |-> "time-update", type |-> "time_update",
                timezone |-> c.timezone, payload |-> <<"now">>] >>
       ELSE << [to |-> c.socket, event |-> "error", type |-> "error",
                timezone |-> c.timezone, payload |-> result.error] >>

\* TimezoneWebSocket.sendTimeUpdate of a controller holding timezoneService:
\* the socket.emit calls it makes.
sendTimeUpdateWith(c, timezoneService, fmt, mock) ==
  LET result == ServiceCall(timezoneService, c.timezone, fmt, mock)
  IN IF result.kind # "result"
       THEN << [to |-> c.socket, event |-> "error", type |-> "error",
                timezone |-> c.timezone, payload |-> FailedUpdateMessage] >>
     ELSE IF result.success
       THEN << [to |-> c.socket, event |-> "time-update", type |-> "time_update",
                timezone |-> c.timezone, payload |-> <<"now">>] >>
       ELSE << [to |-> c.socket, event |-> "error", type |-> "error",
                timezone |-> c.timezone, payload |-> result.error] >>

\* The services the controller is constructed with: the engine, or the
\* jest mock of it.
ControllerServices == { Service("TimezoneService", 1), MockService("TimezoneService") }

\* What the tests make the mock do: return a success, return {success:
\* false, error: 'Invalid timezone'}, return undefined, throw new
\* Error('Service error').
ControllerMocks ==
  { DefaultMock,
    MockResult("result", FALSE, TRUE, <<"Invalid", " ", "timezone">>),
    MockResult("undefined", FALSE, TRUE, << >>),
    MockResult("throw", FALSE, TRUE, <<"Service", " ", "error">>) }

\* What the engine and the mock can do in one call of the controller's service.
PushOutcomes(timezoneService, timezone) ==
  IF timezoneService.svc.mock
    THEN { <<"ok", mock>> : mock \in ControllerMocks }
    ELSE { <<fmt, DefaultMock>> : fmt \in OutcomesOf(timezone) }

\* new TimezoneWebSocket('UTC', service), no client connected yet.
ControllerInit ==
  /\ webSockets = << >>
  /\ sockState = [s \in Sockets |-> "connected"]
  /\ rooms = {}
  /\ webSocketInstances = << >>
  /\ \E svc \in ControllerServices :
       ctrl = << [timezone |-> ArgString(<<"UTC">>), timezoneService |-> ArgService(svc),
                  clients |-> {}] >>
  /\ client = << >>
  /\ closed = FALSE
  /\ lastEmit = << >>
  /\ lastOp = NoOp
  /\ tickUpdates = [s \in Sockets |-> 0]
  /\ tickErrors = [s \in Sockets |-> 0]
  /\ subAtStart = [s \in Sockets |-> FALSE]
  /\ RouterIdle
  /\ registry = AppRegistry
  /\ controllers = AppControllers
  /\ services = << >>
  /\ constructed = 0
  /\ RegistryIdle
  /\ RegistrationIdle
  /\ cleaned = NoCleanup

\* What the controller's methods leave alone.
ControllerFrame ==
  UNCHANGED <<webSockets, services, constructed, sockState, rooms, webSocketInstances,
              closed, tickUpdates, tickErrors, subAtStart, registry, controllers, req, res,
              handled, call, pc, avars>>

\* A step of the controller as lastOp keeps it: rec is the client record it
\* was made for.
ControllerOp(op, rec, timezone) ==
  [op |-> op, sock |-> client[rec].socket, tz |-> timezone, rec |-> rec]

\* timezoneWebSocket.onConnect(client)
ControllerConnect(s, timezone, out) ==
  /\ Len(client) < MaxClients
  /\ client' = Append(client, NewClient(s, timezone, 1))
  /\ ctrl' = [ctrl EXCEPT ![1].clients = @ \cup {Len(client) + 1}]
  /\ lastEmit' = sendTimeUpdateWith(NewClient(s, timezone, 1), ctrl[1].timezoneService,
                                    out[1], out[2])
  /\ lastOp' = [op |-> "connect", sock |-> s, tz |-> timezone, rec |-> Len(client) + 1]
  /\ env' = Env(out[1], out[2], Returns(0), << >>)
  /\ ControllerFrame

\* The setInterval callback of record c.
ControllerTick(c, out) ==
  /\ client[c].intervalId
  /\ lastEmit' = sendTimeUpdateWith(client[c], ctrl[1].timezoneService, out[1], out[2])
  /\ lastOp' = ControllerOp("tick", c, client[c].timezone)
  /\ env' = Env(out[1], out[2], Returns(0), << >>)
  /\ UNCHANGED <<client, ctrl>>
  /\ ControllerFrame

\* The 'get-time' listener of record c.
ControllerGetTime(c, out) ==
  /\ c \in ctrl[1].clients
  /\ lastEmit' = sendTimeUpdateWith(client[c], ctrl[1].timezoneService, out[1], out[2])
  /\ lastOp' = ControllerOp("get-time", c, client[c].timezone)
  /\ env' = Env(out[1], out[2], Returns(0), << >>)
  /\ UNCHANGED <<client, ctrl>>
  /\ ControllerFrame

\* The 'change-timezone' listener of record c.
ControllerChangeTimezone(c, timezone, out) ==
  /\ c \in ctrl[1].clients
  /\ client' = [client EXCEPT ![c].timezone = timezone]
  /\ lastEmit' = sendTimeUpdateWith(client'[c], ctrl[1].timezoneService, out[1], out[2])
  /\ lastOp' = ControllerOp("change-timezone", c, timezone)
  /\ env' = Env(out[1], out[2], Returns(0), << >>)
  /\ UNCHANGED ctrl
  /\ ControllerFrame

\* The 'disconnect' listener of record c: TimezoneWebSocket.onDisconnect.
ControllerDisconnect(c) ==
  /\ c \in ctrl[1].clients
  /\ client' = ClearIntervals({c})
  /\ ctrl' = DeleteClients(ctrl, {c})
  /\ lastEmit' = << >>
  /\ lastOp' = ControllerOp("disconnect", c, client[c].timezone)
  /\ UNCHANGED env
  /\ ControllerFrame

\* A cleanup that leaves the sockets of the records cs connected.
LeaveConnected(cs) == sockState

\* client.socket.disconnect(true) for every record in cs.
ForceDisconnect(cs) ==
  [s \in Sockets |->
     IF \E c \in cs : client[c].socket = s THEN "disconnected" ELSE sockState[s]]

\* timezoneWebSocket.cleanup(): clearInterval and socket.disconnect(true)
\* for every record in this.clients, then this.clients.clear().
ControllerCleanup ==
  /\ client' = ClearIntervals(ctrl[1].clients)
  /\ sockState' = ForceDisconnect(ctrl[1].clients)
  /\ ctrl' = [ctrl EXCEPT ![1].clients = {}]
  /\ lastEmit' = << >>
  /\ lastOp' = [op |-> "cleanup", sock |-> 0, tz |-> << >>, rec |-> 0]
  /\ UNCHANGED <<webSockets, services, constructed, rooms, webSocketInstances,
                 closed, tickUpdates, tickErrors, subAtStart, registry, controllers, req,
                 res, handled, call, env, pc, avars>>

ControllerNext ==
  \/ \E s \in Sockets, tz \in Topics :
       \E out \in PushOutcomes(ctrl[1].timezoneService, tz) : ControllerConnect(s, tz, out)
  \/ \E c \in 1..Len(client) :
       \E out \in PushOutcomes(ctrl[1].timezoneService, client[c].timezone) :
         ControllerTick(c, out)
  \/ \E c \in 1..Len(client) :
       \E out \in PushOutcomes(ctrl[1].timezoneService, client[c].timezone) :
         ControllerGetTime(c, out)
  \/ \E c \in 1..Len(client), tz \in Topics :
       \E out \in PushOutcomes(ctrl[1].timezoneService, tz) :
         ControllerChangeTimezone(c, tz, out)
  \/ \E c \in 1..Len(client) : ControllerDisconnect(c)
  \/ ControllerCleanup

ControllerSpec == ControllerInit /\ [][ControllerNext]_vars

\* The last step pushed to a record, and the service did not give a
\* success: it gave a failure result, threw, or gave nothing.
PushFailed ==
  /\ lastOp.op \in {"connect", "tick", "get-time", "change-timezone"}
  /\ IF ctrl[1].timezoneService.svc.mock
       THEN env.mock.kind # "result" \/ ~env.mock.success
       ELSE ~isValidTimezone(lastOp.tz) \/ env.fmt = "throws"

\* C21: a push never propagates a failure.  When the service returns a
\* failure result, throws, or returns nothing, the push emits exactly one
\* event to the record's socket, an 'error' event {type: 'error', timezone,
\* error}, with the failure result's error or 'Failed to get time update',
\* and no time-update; the record's timer keeps running.
C21_PushNeverThrows ==
  PushFailed =>
    /\ Len(lastEmit) = 1
    /\ lastEmit[1].to = client[lastOp.rec].socket
    /\ lastEmit[1].event = "error"
    /\ lastEmit[1].type = "error"
    /\ lastEmit[1].timezone = client[lastOp.rec].timezone
    /\ ctrl[1].timezoneService.svc.mock =>
         lastEmit[1].payload = IF env.mock.kind = "result" THEN env.mock.message
                               ELSE <<"Failed", " ", "to", " ", "get", " ", "time", " ",
                                      "update">>
    /\ lastEmit[1].payload # << >>
    /\ client[lastOp.rec].intervalId

\* A timer callback ran against a mock that threw.
C21_Witness ==
  /\ lastOp.op = "tick"
  /\ ctrl[1].timezoneService.svc.mock
  /\ env.mock.kind = "throw"
  /\ Len(lastEmit) = 1
  /\ lastEmit[1].event = "error"
  /\ client[lastOp.rec].intervalId

-----------------------------------------------------------------------------
(* Subscriptions against registries with routes that do not match *)

\* '/time/live': a WebSocket route without the :timezone parameter.
StaticLivePath == <<"/", "time", "/", "live">>

\* A WebSocket route registered with a path that has no :timezone segment.
StaticWebSocketMeta == [TimezoneWebSocketMeta EXCEPT !.controllerClass = "StaticWebSocket",
                                                     !.path = StaticLivePath]

\* '/clock/:timezone'
ClockPath == <<"/", "clock", "/", ":", "timezone">>

\* A second WebSocket controller class registered with a :timezone path.
ClockWebSocketMeta == [TimezoneWebSocketMeta EXCEPT !.controllerClass = "ClockWebSocket",
                                                    !.path = ClockPath]

\* Registries the server may run with: none, one, two or three routes,
\* matching or not, in either order of registration.
SubscribeConfigs ==
  { << >>, <<TimezoneWebSocketMeta>>, <<StaticWebSocketMeta>>,
    <<StaticWebSocketMeta, TimezoneWebSocketMeta>>,
    <<TimezoneWebSocketMeta, ClockWebSocketMeta>>,
    <<ClockWebSocketMeta, TimezoneWebSocketMeta>>,
    <<StaticWebSocketMeta, ClockWebSocketMeta, TimezoneWebSocketMeta>> }

SubscribeInit ==
  /\ webSockets \in SubscribeConfigs
  /\ sockState = [s \in Sockets |-> "idle"]
  /\ rooms = {}
  /\ webSocketInstances = << >>
  /\ ctrl = << >>
  /\ client = << >>
  /\ closed = FALSE
  /\ lastEmit = << >>
  /\ lastOp = NoOp
  /\ tickUpdates = [s \in Sockets |-> 0]
  /\ tickErrors = [s \in Sockets |-> 0]
  /\ subAtStart = [s \in Sockets |-> FALSE]
  /\ RouterIdle
  /\ registry = AppRegistry
  /\ controllers = AppControllers
  /\ services = << >>
  /\ constructed = 0
  /\ RegistryIdle
  /\ RegistrationIdle
  /\ cleaned = NoCleanup

SubscribeNext ==
  \/ \E s \in Sockets : Connect(s)
  \/ \E s \in Sockets, tz \in Topics :
       \E fmt \in OutcomesOf(tz), ctor \in CtorOutcomesIn(services) :
         handleTimezoneSubscription(s, tz, fmt, ctor)
  \/ \E s \in Sockets : Disconnect(s)

SubscribeSpec == SubscribeInit /\ [][SubscribeNext]_vars

\* No registered WebSocket route has a ':timezone' segment in its path.
NoTopicRoute ==
  \A w \in 1..Len(webSockets) :
    \A i \in 1..Len(Parts(webSockets[w].path)) :
      Parts(webSockets[w].path)[i] # <<":", "timezone">>

\* C22: a subscribe-timezone that no registered WebSocket route matches
\* (the socket has joined the topic's room by then) emits one 'Route not
\* found' error to the socket and does nothing more: no controller instance
\* is created or cached, no client record is made or added to a
\* controller's set, no timer is started and no service is constructed.
C22_UnmatchedSubscribe ==
  [][ (lastOp'.op = "subscribe" /\ NoTopicRoute)
        => /\ lastEmit' = << [to |-> lastOp'.sock, event |-> "error", type |-> "none",
                              timezone |-> << >>,
                              payload |-> <<"Route", " ", "not", " ", "found">>] >>
           /\ webSocketInstances' = webSocketInstances
           /\ ctrl' = ctrl
           /\ client' = client
           /\ services' = services
           /\ constructed' = constructed ]_vars

\* With a route registered that has no :timezone segment, a subscribe was
\* answered 'Route not found' and left no instance and no record.
C22_Witness ==
  /\ lastOp.op = "subscribe"
  /\ webSockets = <<StaticWebSocketMeta>>
  /\ Len(lastEmit) = 1
  /\ lastEmit[1].payload = <<"Route", " ", "not", " ", "found">>
  /\ webSocketInstances = << >>
  /\ ctrl = << >>
  /\ client = << >>
  /\ <<lastOp.sock, <<"timezone-">> \o lastOp.tz>> \in rooms

-----------------------------------------------------------------------------
(* Constructor parameters of WebSocket controllers *)

\* C23: a controller the subscription server constructs for topic value v
\* holds v as its timezone (the constructor parameter declared with
\* @PARAM('timezone')) and the ServiceRegistry's TimezoneService instance as
\* its timezoneService.
C23_ConstructorArguments ==
  \A c \in 1..Len(client) :
    /\ ctrl[client[c].controller].timezone = ArgString(client[c].subscribed)
    /\ "TimezoneService" \in DOMAIN services
    /\ ctrl[client[c].controller].timezoneService = ArgService(services["TimezoneService"])

\* The entry of target in the WebSocket routes ws.
TopicRouteOf(ws, target) == ws[getWebSocketMetadata(ws, target)]

\* C24: registering a constructor path parameter (name, index) of a
\* controller class before its registerWebSocketRoute call or after it ends
\* in the same WebSocket route, whose spec at that index is a path
\* parameter carrying that name.
C24_TopicOrderIndependent ==
  \A target \in WebSocketTargets, path \in WebSocketPaths, paramName \in ParamNames,
     paramIndex \in ParamIndexes :
    LET paramTypes == getMetadata(emitsMetadata, DesignCtorParamTypes(target))
        paramFirst == registerWebSocketRoute(
                        registerWebSocketParam(webSockets, target, paramName, paramIndex),
                        paramTypes, target, path)
        routeFirst == registerWebSocketParam(
                        registerWebSocketRoute(webSockets, paramTypes, target, path),
                        target, paramName, paramIndex)
    IN /\ TopicRouteOf(paramFirst, target) = TopicRouteOf(routeFirst, target)
       /\ \E i \in 1..Len(TopicRouteOf(paramFirst, target).parameters) :
            LET p == TopicRouteOf(paramFirst, target).parameters[i]
            IN p.index = paramIndex /\ p.type = "param" /\ p.name = paramName


-----------------------------------------------------------------------------
(* HTTP router over declared controllers *)

MaxSegs == 3

\* A call of a registration method of the routing registry, as a decorator
\* or a controller constructor makes it.
RouteDecl(target, method, path, handler) ==
  [op |-> "registerRoute", target |-> target, handler |-> handler, method |-> method,
   path |-> path, name |-> NoName, index |-> 0, serviceType |-> NoService]
ParamDecl(target, handler, paramName, paramIndex) ==
  [op |-> "registerParam", target |-> target, handler |-> handler, method |-> NoMethod,
   path |-> NoPath, name |-> paramName, index |-> paramIndex, serviceType |-> NoService]
ServiceDecl(target, handler, paramIndex, serviceType) ==
  [op |-> "registerServiceParameter", target |-> target, handler |-> handler,
   method |-> NoMethod, path |-> NoPath, name |-> NoName, index |-> paramIndex,
   serviceType |-> serviceType]

\* The controllers map after the registration calls rcs, made in order on reg.
RECURSIVE Registered(_, _)
Registered(reg, rcs) ==
  IF rcs = << >> THEN reg
  ELSE LET rc == Head(rcs)
       IN Registered(
            CASE rc.op = "registerRoute" ->
                   registerRoute(reg, getMetadata(TRUE, DesignParamTypes(rc.target, rc.handler)),
                                 rc.target, rc.method, rc.path, rc.handler)
              [] rc.op = "registerParam" ->
                   registerParam(reg, rc.target, rc.handler, rc.name, rc.index)
              [] OTHER ->
                   registerServiceParameter(reg, rc.target, rc.handler, rc.index,
                                            rc.serviceType),
            Tail(rcs))

\* '/time/:region/:city', '/:region/now', '/time/now', '/now/:id', '/now/:timezone'
PlacePath == <<"/", "time", "/", ":", "region", "/", ":", "city">>
RegionNowPath == <<"/", ":", "region", "/", "now">>
TimeNowPath == <<"/", "time", "/", "now">>
ItemPath == <<"/", "now", "/", ":", "id">>
NowZonePath == <<"/", "now", "/", ":", "timezone">>

\* Controller classes as their decorators register them (the parameter
\* decorators of a method run last parameter first, then its method
\* decorator; methods in the order the class declares them), each with the
\* order its controllers are handed to router.registerController.
\*   TimezoneController: the application's.
\*   PlaceController: getPlace(@PARAM('region'), @PARAM('city')) on
\*     '/time/:region/:city'; getNow(@PARAM('region')) on '/:region/now'.
\*   ZoneController: inZone(service, @PARAM('timezone')) on '/time/:timezone',
\*     the service parameter registered by hand before the route.
\*   FirstController and SecondController: overlapping routes, one of them
\*     with another method; registered with the router in either order.
\*   LegacyController: getItem(req, res, id) on '/now/:id', no parameter
\*     decorators.
\*   MixedController: index 0 of paramLast registered as a service and then
\*     as a path parameter, index 0 of serviceLast the other way round.
DispatchDeclarations ==
  { [calls |-> << ParamDecl("TimezoneController", "getTimeByTimezone", <<"timezone">>, 0),
                  RouteDecl("TimezoneController", "GET", TimePath, "getTimeByTimezone"),
                  ServiceDecl("TimezoneController", "getTimeByTimezone", 1,
                              "TimezoneService") >>,
     controllers |-> <<"TimezoneController">>],
    [calls |-> << ParamDecl("PlaceController", "getPlace", <<"city">>, 1),
                  ParamDecl("PlaceController", "getPlace", <<"region">>, 0),
                  RouteDecl("PlaceController", "GET", PlacePath, "getPlace"),
                  ParamDecl("PlaceController", "getNow", <<"region">>, 0),
                  RouteDecl("PlaceController", "GET", RegionNowPath, "getNow") >>,
     controllers |-> <<"PlaceController">>],
    [calls |-> << ServiceDecl("ZoneController", "inZone", 0, "TimezoneService"),
                  ParamDecl("ZoneController", "inZone", <<"timezone">>, 1),
                  RouteDecl("ZoneController", "GET", TimePath, "inZone") >>,
     controllers |-> <<"ZoneController">>],
    [calls |-> << RouteDecl("LegacyController", "GET", ItemPath, "getItem") >>,
     controllers |-> <<"LegacyController">>],
    [calls |-> << ServiceDecl("MixedController", "paramLast", 0, "TimezoneService"),
                  ParamDecl("MixedController", "paramLast", <<"timezone">>, 0),
                  RouteDecl("MixedController", "GET", TimePath, "paramLast"),
                  ParamDecl("MixedController", "serviceLast", <<"timezone">>, 0),
                  ServiceDecl("MixedController", "serviceLast", 0, "TimezoneService"),
                  RouteDecl("MixedController", "GET", NowZonePath, "serviceLast") >>,
     controllers |-> <<"MixedController">>] }
  \cup
  { [calls |-> << ParamDecl("FirstController", "byName", <<"timezone">>, 0),
                  ParamDecl("FirstController", "post", <<"timezone">>, 0),
                  RouteDecl("FirstController", "POST", TimePath, "post"),
                  RouteDecl("FirstController", "GET", TimePath, "byName"),
                  RouteDecl("SecondController", "GET", TimeNowPath, "now"),
                  RouteDecl("SecondController", "POST", TimeNowPath, "postNow"),
                  ParamDecl("SecondController", "other", <<"timezone">>, 0),
                  RouteDecl("SecondController", "GET", TimePath, "other") >>,
     controllers |-> order] :
      order \in { <<"FirstController", "SecondController">>,
                  <<"SecondController", "FirstController">> } }

\* Request paths of one to MaxSegs segments.
Segments == { <<"time">>, <<"now">>, <<"Europe">>, <<"Kyiv">> }
UrlOf(segs) == <<"/">> \o Join(segs)
DispatchRequests ==
  { [method |-> m, url |-> UrlOf(segs)] :
      m \in {"GET", "POST"}, segs \in SeqsUpTo(Segments, MaxSegs) \ { << >> } }

\* The classes are defined, the server has registered its controllers with
\* the router, and a request has arrived; routeCalls holds every
\* registration call the class definitions made, in order.
DispatchInit ==
  /\ SocketsIdle
  /\ \E d \in DispatchDeclarations :
       /\ routeCalls = d.calls
       /\ registry = Registered(<< >>, d.calls)
       /\ controllers = d.controllers
  /\ req \in DispatchRequests
  /\ \E state \in ServiceStates : services = state[1] /\ constructed = state[2]
  /\ res = NoResponse
  /\ handled = "none"
  /\ call = NoCall
  /\ env = NoEnv
  /\ pc = "idle"
  /\ RegistryIdle
  /\ emitsMetadata = TRUE
  /\ regOp = NoRegOp
  /\ paramsOnly = << >>
  /\ calls = 0
  /\ cleaned = NoCleanup

DispatchNext ==
  \/ \E fmt \in FormatOutcomes, mock \in MockOutcomes, ctor \in CtorOutcomes :
       HandleRequest(fmt, mock, ctor)
  \/ Respond

DispatchSpec == DispatchInit /\ [][DispatchNext]_vars

\* The positions of the `:name` segments of a pattern.
NamedAt(routeParts) == { i \in 1..Len(routeParts) : IsParam(routeParts[i]) }

\* C25: for every route of the registry and the request at hand: when the
\* request path has as many non-empty segments as the route's pattern and
\* every literal segment of the pattern equals the request's, matchRoute
\* matches and its params hold, for each `:name` segment wherever it stands,
\* the (percent-decoded) request segment under name; when the counts differ
\* and the pattern does not end in a `:name`, matchRoute does not match.
C25_ExactArity ==
  \A c \in 1..Len(registry) : \A r \in 1..Len(registry[c].routes) :
    LET routePath == registry[c].routes[r].path
        routeParts == Parts(routePath)
        pathParts == Parts(Pathname(req.url))
        match == matchRoute(Pathname(req.url), routePath)
    IN /\ ( /\ Len(routeParts) = Len(pathParts)
            /\ \A i \in 1..Len(routeParts) :
                 IF IsParam(routeParts[i]) THEN decodeURIComponent(pathParts[i]).ok
                                           ELSE routeParts[i] = pathParts[i] )
            => /\ match.kind = "match"
               /\ \A i \in NamedAt(routeParts) :
                    /\ Tail(routeParts[i]) \in DOMAIN match.params
                    /\ match.params[Tail(routeParts[i])]
                         = decodeURIComponent(pathParts[i]).value
       /\ ( /\ Len(routeParts) # Len(pathParts)
            /\ ~(routeParts # << >> /\ IsParam(routeParts[Len(routeParts)])) )
            => match.kind = "null"


\* The handlers of target in the order the registration calls rcs first
\* named them.
RECURSIVE FirstRegistered(_, _, _)
FirstRegistered(rcs, target, seen) ==
  IF rcs = << >> THEN << >>
  ELSE IF Head(rcs).target = target /\ Head(rcs).handler \notin seen
    THEN <<Head(rcs).handler>>
           \o FirstRegistered(Tail(rcs), target, seen \cup {Head(rcs).handler})
    ELSE FirstRegistered(Tail(rcs), target, seen)

\* <<controller class, handler>> pairs: the controllers ctrls in order, each
\* one's handlers in the order they were first registered.
RECURSIVE IterationOrder(_)
IterationOrder(ctrls) ==
  IF ctrls = << >> THEN << >>
  ELSE LET hs == FirstRegistered(routeCalls, Head(ctrls), {})
       IN [i \in 1..Len(hs) |-> <<Head(ctrls), hs[i]>>] \o IterationOrder(Tail(ctrls))

\* The route of the pair has the request's method and its pattern matches
\* the request's path.
Matches(pair) ==
  LET route == RouteOf(registry, pair[1], pair[2])
  IN /\ route.method = req.method
     /\ matchRoute(Pathname(req.url), route.path).kind = "match"

\* The route of the pair has a pattern that matches the request's path and
\* another method.
OtherMethod(pair) ==
  LET route == RouteOf(registry, pair[1], pair[2])
  IN /\ route.method # req.method
     /\ matchRoute(Pathname(req.url), route.path).kind = "match"

\* The positions in IterationOrder(controllers) of the routes that match.
Hits == { i \in 1..Len(IterationOrder(controllers)) : Matches(IterationOrder(controllers)[i]) }

\* C26: once handleRequest has settled, the handler it invoked is that of
\* the first route, going through the controllers in the order they were
\* registered with the router and through each one's routes in the order
\* they were first registered, that has the request's method and matches
\* its path; it invoked one handler when there is such a route and none
\* otherwise.
C26_FirstMatchWins ==
  pc # "idle" =>
    IF Hits = {}
      THEN handled = "false" /\ call = NoCall
      ELSE /\ handled = "true"
           /\ call.handler
                = IterationOrder(controllers)[CHOOSE i \in Hits : \A j \in Hits : i <= j][2]

\* The controllers were registered with the router in another order than
\* their classes were defined; two routes with the request's method match,
\* and before the first of them stands a route of another method whose
\* pattern matches too.
C26_Witness ==
  /\ pc # "idle"
  /\ handled = "true"
  /\ registry[1].controllerClass # controllers[1]
  /\ Cardinality(Hits) >= 2
  /\ \E i \in 1..Len(IterationOrder(controllers)) :
       /\ OtherMethod(IterationOrder(controllers)[i])
       /\ \A j \in Hits : i < j


\* handleRequest invoked a handler: a route matched and no service
\* constructor threw while its arguments were resolved.
HandlerInvoked ==
  /\ pc # "idle"
  /\ handled = "true"
  /\ call.result # Throw(TRUE, CtorMessage)

\* The route entry of the handler that was invoked.
CalledRoute ==
  LET order == IterationOrder(controllers)
      i == CHOOSE i \in 1..Len(order) : order[i][2] = call.handler
  IN RouteOf(registry, order[i][1], order[i][2])

\* C27: when the invoked handler's route has parameter specs, the argument
\* list holds, for every spec, at the spec's index: for a path parameter the
\* string the match captured under its name, as captured; for an injected
\* service the instance the ServiceRegistry holds for its type, which is the
\* one it held before the request if it held one.
C27_ResolvedArguments ==
  ( HandlerInvoked /\ CalledRoute.parameters # << >> ) =>
    \A k \in 1..Len(CalledRoute.parameters) :
      LET p == CalledRoute.parameters[k]
      IN IF p.type = "param"
           THEN ArgAt(call.args, p.index)
                  = IF p.name \in DOMAIN call.params
                      THEN [kind |-> "string", str |-> call.params[p.name],
                            svc |-> NoInstance]
                      ELSE ArgUndefined
           ELSE /\ p.serviceType \in DOMAIN services
                /\ ArgAt(call.args, p.index)
                     = [kind |-> "service", str |-> << >>, svc |-> services[p.serviceType]]
                /\ p.serviceType \in DOMAIN env.services
                     => services[p.serviceType] = env.services[p.serviceType]

\* A handler declared (service, @PARAM) was invoked with a new service
\* instance first and a captured identifier with a slash second.
C27_Witness ==
  /\ HandlerInvoked
  /\ env.services = << >>
  /\ Len(call.args) = 2
  /\ call.args[1].kind = "service"
  /\ call.args[1].svc = services["TimezoneService"]
  /\ call.args[2].kind = "string"
  /\ call.args[2].str = <<"Europe", "/", "Kyiv">>


\* The values params holds for the `:name` segments of routeParts, in the
\* order the pattern declares them.
RECURSIVE CapturedInOrder(_, _)
CapturedInOrder(routeParts, params) ==
  IF routeParts = << >> THEN << >>
  ELSE (IF IsParam(Head(routeParts)) /\ Tail(Head(routeParts)) \in DOMAIN params
          THEN << [kind |-> "string", str |-> params[Tail(Head(routeParts))],
                   svc |-> NoInstance] >>
          ELSE << >>)
       \o CapturedInOrder(Tail(routeParts), params)

\* C28: when the invoked handler's route has no parameter specs, the
\* argument list is the legacy one: the request, the response, and then the
\* path parameters the match captured, in the order the route declares them.
C28_LegacyArguments ==
  ( HandlerInvoked /\ CalledRoute.parameters = << >> ) =>
    call.args = << [kind |-> "req", str |-> << >>, svc |-> NoInstance],
                   [kind |-> "res", str |-> << >>, svc |-> NoInstance] >>
                \o CapturedInOrder(Parts(CalledRoute.path), call.params)


\* The <<controller class, handler>> pair of the handler that was invoked.
CalledPair ==
  LET order == IterationOrder(controllers)
  IN order[CHOOSE i \in 1..Len(order) : order[i][2] = call.handler]

\* The registerParam and registerServiceParameter calls made for index of
\* the pair's handler, in the order they were made.
SpecCalls(pair, index) ==
  SelectSeq(routeCalls,
            LAMBDA rc : /\ rc.op # "registerRoute"
                        /\ rc.target = pair[1]
                        /\ rc.handler = pair[2]
                        /\ rc.index = index)

\* Both a path parameter and an injected service were registered for index
\* of the pair's handler.
BothKinds(pair, index) ==
  /\ \E k \in 1..Len(SpecCalls(pair, index)) : SpecCalls(pair, index)[k].op = "registerParam"
  /\ \E k \in 1..Len(SpecCalls(pair, index)) :
       SpecCalls(pair, index)[k].op = "registerServiceParameter"

\* C29: when the invoked handler has an index for which both a path
\* parameter and an injected service were registered, the argument at that
\* index is of the kind registered last: the string captured under the
\* registered name if registerParam came last, the ServiceRegistry's
\* instance of the registered type if registerServiceParameter came last.
C29_LaterKindWins ==
  HandlerInvoked =>
    \A index \in ParamIndexes :
      BothKinds(CalledPair, index) =>
        LET last == SpecCalls(CalledPair, index)[Len(SpecCalls(CalledPair, index))]
        IN IF last.op = "registerParam"
             THEN /\ last.name \in DOMAIN call.params
                  /\ ArgAt(call.args, index)
                       = [kind |-> "string", str |-> call.params[last.name],
                          svc |-> NoInstance]
             ELSE /\ last.serviceType \in DOMAIN services
                  /\ ArgAt(call.args, index)
                       = [kind |-> "service", str |-> << >>,
                          svc |-> services[last.serviceType]]

\* The handler whose index 0 was registered as a path parameter and then
\* as a service was invoked with the service; its request's path captured
\* a value under the parameter's name.
C29_Witness ==
  /\ HandlerInvoked
  /\ BothKinds(CalledPair, 0)
  /\ SpecCalls(CalledPair, 0)[Len(SpecCalls(CalledPair, 0))].op = "registerServiceParameter"
  /\ <<"timezone">> \in DOMAIN call.params
  /\ call.args[1].kind = "service"


-----------------------------------------------------------------------------
(* The change-timezone signal *)

\* C30: a change-timezone signal of a connection rebinds the stored
\* timezone of the connection's record and nothing else of it, and pushes
\* exactly one update, for the new timezone; every other record, the
\* controller instances and their client sets, the instance cache and the
\* rooms stay as they were, so the record keeps its controller, its room
\* and its timer; and every timer tick pushes an update for the timezone
\* a record of the connection with a running timer holds when it fires.
C30_ChangeTopic ==
  [][ /\ lastOp'.op = "change-timezone"
        => /\ Len(lastEmit') = 1
           /\ lastEmit'[1].to = lastOp'.sock
           /\ lastEmit'[1].timezone = lastOp'.tz
           /\ Len(client') = Len(client)
           /\ \A c \in 1..Len(client) :
                client'[c] = IF client[c].socket = lastOp'.sock
                               THEN [client[c] EXCEPT !.timezone = lastOp'.tz]
                               ELSE client[c]
           /\ ctrl' = ctrl
           /\ webSocketInstances' = webSocketInstances
           /\ rooms' = rooms
      /\ lastOp'.op = "tick"
        => /\ Len(lastEmit') = 1
           /\ \E c \in 1..Len(client) :
                /\ client[c].socket = lastEmit'[1].to
                /\ client[c].intervalId
                /\ client[c].timezone = lastEmit'[1].timezone ]_vars


-----------------------------------------------------------------------------
(* Independence of the per-connection timers *)

\* C31: when the controller's onDisconnect runs for one client record, that
\* record's timer is cancelled and it leaves the client set, while every
\* other record stays as it was (its timer included) and keeps its place in
\* or out of the set; every record in the set has a running timer; and a
\* timer's tick pushes exactly one event, to the connection of its own
\* record.
C31_TimersIndependent ==
  [][ /\ lastOp'.op = "disconnect"
        => /\ ~client'[lastOp'.rec].intervalId
           /\ lastOp'.rec \notin ctrl'[1].clients
           /\ Len(client') = Len(client)
           /\ \A d \in 1..Len(client) :
                d # lastOp'.rec
                  => /\ client'[d] = client[d]
                     /\ d \in ctrl'[1].clients <=> d \in ctrl[1].clients
      /\ \A d \in ctrl'[1].clients : client'[d].intervalId
      /\ lastOp'.op = "tick"
        => /\ Len(lastEmit') = 1
           /\ lastEmit'[1].to = client[lastOp'.rec].socket
           /\ client' = client
           /\ ctrl' = ctrl ]_vars

\* After one record was disconnected, the timer of a record of another
\* connection, still in the set, ticked and pushed its update.
C31_Witness ==
  /\ lastOp.op = "tick"
  /\ Len(lastEmit) = 1
  /\ lastEmit[1].event = "time-update"
  /\ lastOp.rec \in ctrl[1].clients
  /\ \E c \in 1..Len(client) :
       /\ ~client[c].intervalId
       /\ c \notin ctrl[1].clients
       /\ client[c].socket # client[lastOp.rec].socket


-----------------------------------------------------------------------------
(* Matching of topics to WebSocket routes *)

\* The registered WebSocket routes whose path has a ':timezone' segment.
TopicRoutes ==
  { w \in 1..Len(webSockets) :
      \E i \in 1..Len(Parts(webSockets[w].path)) :
        Parts(webSockets[w].path)[i] = <<":", "timezone">> }

\* The controller class of the first registered of them.
FirstTopicClass ==
  webSockets[CHOOSE w \in TopicRoutes : \A v \in TopicRoutes : w <= v].controllerClass

\* C32: when some registered WebSocket route has a ':timezone' segment, a
\* subscribe-timezone with any topic value is never answered 'Route not
\* found' and, unless a constructor threw, adds one client record whose
\* controller is the instance cached under the class of the first registered
\* such route and the topic value; every cached instance is of that class
\* and every client record belongs to such an instance.
C32_FirstTopicRoute ==
  [][ ( lastOp'.op = "subscribe" /\ TopicRoutes # {} )
        => /\ Len(lastEmit') = 1
           /\ lastEmit'[1].payload # <<"Route", " ", "not", " ", "found">>
           /\ lastEmit'[1].payload # <<"Internal", " ", "server", " ", "error">>
                => /\ Len(client') = Len(client) + 1
                   /\ <<FirstTopicClass, "-">> \o lastOp'.tz \in DOMAIN webSocketInstances'
                   /\ client'[Len(client')].controller
                        = webSocketInstances'[<<FirstTopicClass, "-">> \o lastOp'.tz]
           /\ \A key \in DOMAIN webSocketInstances' : key[1] = FirstTopicClass
           /\ \A c \in 1..Len(client') :
                \E key \in DOMAIN webSocketInstances' :
                  webSocketInstances'[key] = client'[c].controller ]_vars

\* Two routes with a ':timezone' segment are registered, the application's
\* second; a subscribe with a topic value no timezone engine knows got its
\* record on an instance of the first class.
C32_Witness ==
  /\ lastOp.op = "subscribe"
  /\ Cardinality(TopicRoutes) = 2
  /\ webSockets[Len(webSockets)].controllerClass = "TimezoneWebSocket"
  /\ lastOp.tz = <<"Nope">>
  /\ client # << >>
  /\ DOMAIN webSocketInstances = { <<"ClockWebSocket", "-", "Nope">> }
  /\ client[Len(client)].controller = webSocketInstances[<<"ClockWebSocket", "-", "Nope">>]


-----------------------------------------------------------------------------
(* Construction failures during subscribe-timezone *)

\* The step is a subscribe-timezone that had to construct a controller
\* instance and its service (a route matches, no instance is cached under
\* the key, the ServiceRegistry does not hold the service) and after which
\* the ServiceRegistry still does not hold it: the constructor threw.
ConstructionFailed ==
  /\ lastOp'.op = "subscribe"
  /\ TopicRoutes # {}
  /\ <<FirstTopicClass, "-">> \o lastOp'.tz \notin DOMAIN webSocketInstances
  /\ "TimezoneService" \notin DOMAIN services
  /\ "TimezoneService" \notin DOMAIN services'

\* C33 as stated: a construction failure during subscribe-timezone leaves
\* the handler as an exception that reaches the caller of the server.
C33_FailurePropagates ==
  [][ ConstructionFailed => lastOp'.threw ]_vars

\* C33, amended: a construction failure during subscribe-timezone is caught
\* in the handler: it emits one 'Internal server error' event to the
\* subscribing socket and returns, and no exception reaches its caller.
C33_FailureReported ==
  [][ ConstructionFailed
        => /\ ~lastOp'.threw
           /\ lastEmit' = << [to |-> lastOp'.sock, event |-> "error", type |-> "none",
                              timezone |-> << >>,
                              payload |-> <<"Internal", " ", "server", " ", "error">>] >> ]_vars

\* A subscribe whose service constructor threw was answered with the error
\* event.
C33_Witness ==
  /\ lastOp.op = "subscribe"
  /\ TopicRoutes # {}
  /\ services = << >>
  /\ constructed = 0
  /\ ~lastOp.threw
  /\ Len(lastEmit) = 1
  /\ lastEmit[1].payload = <<"Internal", " ", "server", " ", "error">>


RoutingLookup == regOp' # regOp

\* The step ends with the last ServiceRegistry call a getService.
ServiceLookup == regCall'.op = "get"

\* The three maps the lookups read are what they were.
MapsUntouched ==
  /\ registry' = registry
  /\ webSockets' = webSockets
  /\ services' = services
  /\ constructed' = constructed

\* The classes with an entry in a map of route metadata.
ClassesOf(map) == { map[i].controllerClass : i \in 1..Len(map) }

\* The map a routing lookup reads.
MapOf(op) == IF op = "getControllerMetadata" THEN registry ELSE webSockets

\* C34: a lookup of the route metadata of a controller type, of the TopicRoute
\* of a controller type or of the cached service of an identifier does not
\* fail and changes none of the maps; for a key with no entry it returns
\* undefined and creates no entry, so the key has no entry afterwards either;
\* for a key with an entry it returns that entry.
C34_LookupsReadOnly ==
  [][/\ RoutingLookup =>
          /\ MapsUntouched
          /\ regOp'.op \in {"getControllerMetadata", "getWebSocketMetadata"}
          /\ IF regOp'.target \in ClassesOf(MapOf(regOp'.op))
             THEN /\ regOp'.found \in 1..Len(MapOf(regOp'.op))
                  /\ MapOf(regOp'.op)[regOp'.found].controllerClass = regOp'.target
             ELSE regOp'.found = 0
     /\ ServiceLookup =>
          /\ MapsUntouched
          /\ ~regCall'.threw
          /\ IF regCall'.id \in DOMAIN services
             THEN regCall'.result = services[regCall'.id]
             ELSE /\ regCall'.result = NoInstance
                  /\ regCall'.id \notin DOMAIN services'
    ]_vars

\* A service type with no entry was looked up while another one was cached,
\* and a class with no entry was looked up in the routing registry.
C34_Witness ==
  /\ regCall.op = "get"
  /\ regCall.id \notin DOMAIN services
  /\ regCall.result = NoInstance
  /\ services # << >>
  /\ regOp.op \in {"getControllerMetadata", "getWebSocketMetadata"}
  /\ regOp.found = 0


\* ---------------------------------------------------------------------------
\* The cleanup hook of a controller instance
\* ---------------------------------------------------------------------------

\* The step is the controller's cleanup().
CleanupStep == lastOp'.op = "cleanup"

\* C35: the cleanup hook of a controller instance cancels the timer of every
\* record in its set and force-disconnects every record's socket, leaves the
\* set empty, and leaves no timer of the instance that could fire afterwards;
\* with an empty set it changes nothing. A timer only ever fires for a record
\* that is in the set.
C35_ControllerCleanup ==
  [][/\ CleanupStep =>
          /\ \A c \in ctrl[1].clients :
               /\ ~client'[c].intervalId
               /\ sockState'[client[c].socket] = "disconnected"
          /\ ctrl'[1].clients = {}
          /\ Cardinality(ctrl'[1].clients) = 0
          /\ \A c \in 1..Len(client') : ~client'[c].intervalId
          /\ ctrl[1].clients = {} =>
               /\ client' = client
               /\ sockState' = sockState
               /\ ctrl' = ctrl
     /\ lastOp'.op = "tick" => lastOp'.rec \in ctrl[1].clients
    ]_vars

\* cleanup() ran over a set of two records with running timers.
C35_Witness ==
  /\ lastOp.op = "cleanup"
  /\ Len(client) >= 2
  /\ \E s \in Sockets : sockState[s] = "disconnected"
  /\ ctrl[1].clients = {}


\* ---------------------------------------------------------------------------
\* Timers and the records that own them
\* ---------------------------------------------------------------------------

\* C36: no orphan timers: every record whose interval is running is in the
\* client set of its controller instance, and that instance is held in the
\* server's instance cache; once the server's cleanup has run no interval is
\* running.
C36_NoOrphanTimers ==
  /\ \A c \in ActiveTimers :
       /\ client[c].controller \in 1..Len(ctrl)
       /\ c \in ctrl[client[c].controller].clients
       /\ client[c].controller \in CachedInstances
  /\ closed => ActiveTimers = {}

\* One record's interval is running in a cached instance while the interval
\* of another record, made for another socket, was cancelled by its
\* disconnect.
C36_Witness ==
  /\ ~closed
  /\ \E c1, c2 \in 1..Len(client) :
       /\ client[c1].intervalId
       /\ ~client[c2].intervalId
       /\ client[c1].socket # client[c2].socket
       /\ sockState[client[c2].socket] = "disconnected"
       /\ client[c1].controller \in CachedInstances


\* ---------------------------------------------------------------------------
\* One response per request
\* ---------------------------------------------------------------------------

\* C37: once handleRequest and the request listener have finished, exactly
\* one response has been sent, whether the matched handler returned a value,
\* returned nothing or failed.
C37_AnsweredOnce == pc = "done" => res.ended = 1


-----------------------------------------------------------------------------
(* HTTP requests in flight while subscribe-timezone events arrive *)

\* In this specification req, res, handled, call, env and pc hold one entry
\* per request in flight.
Flights == {1, 2}

\* The requests in flight: for the time of a zone, and of one the engine
\* rejects.
ConcurrentRequests ==
  { [method |-> "GET", url |-> <<"/", "time", "/">> \o tz] : tz \in Topics }

\* The outcomes the engine can have during a request: it formats only for
\* a zone that passed validation.
FlightOutcomes(request) ==
  IF \E tz \in Topics : request.url = <<"/", "time", "/">> \o tz /\ isValidTimezone(tz)
    THEN FormatOutcomes ELSE {"ok"}

\* node has started: no connection, no request has reached the router.
ConcurrentInit ==
  /\ webSockets = <<TimezoneWebSocketMeta>>
  /\ services = << >>
  /\ constructed = 0
  /\ sockState = [s \in Sockets |-> "idle"]
  /\ rooms = {}
  /\ webSocketInstances = << >>
  /\ ctrl = << >>
  /\ client = << >>
  /\ closed = FALSE
  /\ lastEmit = << >>
  /\ lastOp = NoOp
  /\ tickUpdates = [s \in Sockets |-> 0]
  /\ tickErrors = [s \in Sockets |-> 0]
  /\ subAtStart = [s \in Sockets |-> FALSE]
  /\ registry = AppRegistry
  /\ controllers = AppControllers
  /\ req \in [Flights -> ConcurrentRequests]
  /\ res = [i \in Flights |-> NoResponse]
  /\ handled = [i \in Flights |-> "none"]
  /\ call = [i \in Flights |-> NoCall]
  /\ env = [i \in Flights |-> NoEnv]
  /\ pc = [i \in Flights |-> "idle"]
  /\ RegistryIdle
  /\ RegistrationIdle
  /\ cleaned = NoCleanup

\* handleRequest reached `await handler.apply(controller, params)`: a route
\* matched and extractParameters returned.
Awaits(h) == h.handled = "true" /\ h.call.result # Throw(TRUE, CtorMessage)

\* Request i arrives: router.handleRequest runs up to its first await, that
\* is through the headers, the matching and extractParameters, and into the
\* handler; what it does without reaching the await it does here.
BeginRequest(i, fmt, ctor) ==
  /\ pc[i] = "idle"
  /\ ctor.threw => fmt = "ok"
  /\ LET h == handleRequest(req[i], res[i], services, fmt, DefaultMock, ctor)
     IN /\ services' = h.services
        /\ constructed' = constructed + Constructions(services, h.services)
        /\ handled' = [handled EXCEPT ![i] = h.handled]
        /\ call' = [call EXCEPT ![i] = h.call]
        /\ res' = [res EXCEPT ![i] = IF Awaits(h) THEN [res[i] EXCEPT !.headers = CorsHeaders]
                                     ELSE h.res]
        /\ pc' = [pc EXCEPT ![i] = IF Awaits(h) THEN "awaiting" ELSE "routed"]
  /\ env' = [env EXCEPT ![i] = Env(fmt, DefaultMock, ctor, services)]
  /\ UNCHANGED <<svars, avars, registry, controllers, req>>

\* The await of request i's handler settles: handleRequest sends what the
\* handler gave, or the catch block's error, and returns true.
ResumeRequest(i) ==
  /\ pc[i] = "awaiting"
  /\ res' = [res EXCEPT ![i] =
               handleRequest(req[i], NoResponse, env[i].services, env[i].fmt,
                             env[i].mock, env[i].ctor).res]
  /\ pc' = [pc EXCEPT ![i] = "routed"]
  /\ UNCHANGED <<services, constructed, svars, avars, registry, controllers, req, handled,
                 call, env>>

\* The request listener of request i resumes after
\* `await router.handleRequest(req, res)`.
RespondRequest(i) ==
  /\ pc[i] = "routed"
  /\ res' = [res EXCEPT ![i] = Listener(res[i], handled[i])]
  /\ pc' = [pc EXCEPT ![i] = "done"]
  /\ UNCHANGED <<services, constructed, svars, avars, registry, controllers, req, handled,
                 call, env>>

\* The one subscribe-timezone of connection s.
SubscribeOnce(s, timezone, fmt, ctor) ==
  /\ ListenersOf(s) = {}
  /\ handleTimezoneSubscription(s, timezone, fmt, ctor)

ConcurrentNext ==
  \/ \E i \in Flights : \E fmt \in FlightOutcomes(req[i]), ctor \in CtorOutcomesIn(services) :
       BeginRequest(i, fmt, ctor)
  \/ \E i \in Flights : ResumeRequest(i)
  \/ \E i \in Flights : RespondRequest(i)
  \/ \E s \in Sockets : Connect(s)
  \/ \E s \in Sockets, tz \in Topics :
       \E fmt \in OutcomesOf(tz), ctor \in CtorOutcomesIn(services) :
         SubscribeOnce(s, tz, fmt, ctor)

ConcurrentSpec == ConcurrentInit /\ [][ConcurrentNext]_vars

\* The service instances the handlers of the requests in flight were called
\* with.
GivenToHandlers ==
  UNION { { call[i].args[k].svc : k \in 1..Len(call[i].args) } : i \in Flights }
    \ {NoInstance}

\* The service instances the controller instances were constructed with.
GivenToControllers ==
  { ctrl[k].timezoneService.svc : k \in 1..Len(ctrl) } \ {NoInstance}

\* C38: whatever the interleaving of the steps of the requests in flight and
\* of the subscribe-timezone events, at most one TimezoneService is
\* constructed and every handler and controller constructor is given that
\* one; every controller instance constructed is cached under one key of its
\* own, there are no more of them than topics subscribed to, and the records
\* of one topic share one.
C38_OneInstancePerKey ==
  /\ constructed <= 1
  /\ constructed = Cardinality(DOMAIN services)
  /\ Cardinality(GivenToHandlers \cup GivenToControllers) <= 1
  /\ GivenToHandlers \cup GivenToControllers \subseteq { services[t] : t \in DOMAIN services }
  /\ \A k1, k2 \in DOMAIN webSocketInstances :
       webSocketInstances[k1] = webSocketInstances[k2] => k1 = k2
  /\ Len(ctrl) = Cardinality(DOMAIN webSocketInstances)
  /\ Len(ctrl) <= Cardinality({ client[c].subscribed : c \in 1..Len(client) })
  /\ \A c1, c2 \in 1..Len(client) :
       client[c1].subscribed = client[c2].subscribed
         => client[c1].controller = client[c2].controller

\* Both requests are suspended at the await of their handler with the same
\* service instance while two connections are subscribed to one topic.
C38_Witness ==
  /\ \A i \in Flights : pc[i] = "awaiting"
  /\ Cardinality(GivenToHandlers) = 1
  /\ GivenToHandlers = GivenToControllers
  /\ \E c1, c2 \in 1..Len(client) :
       /\ client[c1].socket # client[c2].socket
       /\ client[c1].subscribed = client[c2].subscribed

====
